---- MODULE Spec2Model ----
(***************************************************************************)
(* Transactional workflows of the e-commerce back office                   *)
(* (src/transactions/transaction_manager.py) over a relational store.      *)
(*                                                                         *)
(* The store is modelled as the committed tables `db` plus, for every open *)
(* connection, the overlay `ws` of rows it has written and not yet         *)
(* committed.  A connection reads its own overlay first; a row written by  *)
(* another open transaction is locked (SQL Server READ COMMITTED), so the  *)
(* statement that touches it waits.  commit() merges the overlay into db,  *)
(* rollback() and close() discard it.  Amounts are integers (minor units). *)
(***************************************************************************)
EXTENDS Integers, Sequences, FiniteSets, TLC

\* ---------------------------------------------------------------- bounds
MaxCredit == 1        \* initial CreditLimit of a customer ranges over 0..MaxCredit
MaxAmount == 2        \* transfer amounts range over -1..MaxAmount
MaxLog    == 2        \* TransactionLog identities available
MaxCalls  == 2        \* invocations started in one behaviour
MaxOrders == 1        \* Orders identities available
MaxItems  == 2        \* items in one order_items_data list
MaxPrice  == 2        \* product prices range over 1..MaxPrice
MaxQty    == 1        \* item quantities range over -1..MaxQty

\* ------------------------------------------------------------ the universe
Procs      == {1, 2}                  \* callers, one connection each at a time
CustIds    == 1..3                    \* customer ids a caller may pass
Registered == {1, 2}                  \* ids that have a Customers row
LogIds     == 1..MaxLog
Amounts    == (-1)..MaxAmount
ProdIds    == 1..3                    \* product ids a caller may pass
Stocked    == {1, 2}                  \* ids that have a Products row
OrderIds   == 1..(MaxOrders + 1)      \* the last id is never generated
ItemIds    == 1..(MaxOrders * MaxItems)
Quantities == (-1)..MaxQty

\* order_items_data: lists of {'product_id': ..., 'quantity': ...}
ItemData  == [product_id : ProdIds, quantity : Quantities]
ItemLists == UNION {[1..n -> ItemData] : n \in 0..MaxItems}

\* Rows.  `exists = FALSE` stands for "no row with this key".
\* CreditLimit is modelled as NOT NULL (every insert path of the repository
\* supplies a number), so `result[0] or 0` is the value itself.
NoCustomer == [exists |-> FALSE, CreditLimit |-> 0]
NoLogRow   == [exists |-> FALSE, FromCustomerID |-> 0, ToCustomerID |-> 0, Amount |-> 0]

NoProduct  == [exists |-> FALSE, InStock |-> FALSE, Price |-> 0]
NoOrder    == [exists |-> FALSE, CustomerID |-> 0, TotalAmount |-> 0, OrderStatus |-> "none"]
NoItem     == [exists |-> FALSE, OrderID |-> 0, ProductID |-> 0, Quantity |-> 0, UnitPrice |-> 0]

CustomerRow(c) == [exists |-> TRUE, CreditLimit |-> c]
ProductRow(s, pr) == [exists |-> TRUE, InStock |-> s, Price |-> pr]
OrderRow(c, t, st) == [exists |-> TRUE, CustomerID |-> c, TotalAmount |-> t, OrderStatus |-> st]
ItemRow(o, pr, q, u) ==
    [exists |-> TRUE, OrderID |-> o, ProductID |-> pr, Quantity |-> q, UnitPrice |-> u]
LogRow(f, t, a) == [exists |-> TRUE, FromCustomerID |-> f, ToCustomerID |-> t, Amount |-> a]

VARIABLES
    db,          \* committed tables: db[table][id] is a row
    logTable,    \* TRUE when the TransactionLog table exists
    identity,    \* next IDENTITY value per table (never rolled back)
    ws,          \* ws[p]: rows written by p's open transaction, keyed <<table, id>>
    pc,          \* pc[p]: the statement p executes next
    args,        \* args[p]: arguments of p's current invocation
    loc,         \* loc[p]: local variables of p's current invocation
    ret,         \* ret[p]: how p's last invocation ended
    hist,        \* hist[p]: what p's current/last invocation did (history)
    calls        \* number of invocations started

vars == <<db, logTable, identity, ws, pc, args, loc, ret, hist, calls>>

\* ------------------------------------------------------- store primitives
Key(t, i) == <<t, i>>

\* p's transaction sees its own uncommitted writes, otherwise committed rows
Read(p, t, i) == IF Key(t, i) \in DOMAIN ws[p] THEN ws[p][Key(t, i)] ELSE db[t][i]

\* the row is write-locked by another open transaction
Blocked(p, t, i) == \E q \in Procs \ {p} : Key(t, i) \in DOMAIN ws[q]

\* the overlay w with row (t, i) set to r
Put(w, t, i, r) == (Key(t, i) :> r) @@ w

\* connection.commit(): the overlay becomes part of the committed tables
Apply(d, w) ==
    [t \in DOMAIN d |->
        [i \in DOMAIN d[t] |-> IF Key(t, i) \in DOMAIN w THEN w[Key(t, i)] ELSE d[t][i]]]

NoWrites == << >>

\* ------------------------------------------------------- per-call records
NoArgs == [op |-> "none"]
NoLoc  == [operations |-> << >>, idx |-> 0, results |-> << >>, exc |-> "none",
           i |-> 0, order_id |-> 0, customer_id |-> 0, total_amount |-> 0,
           items |-> << >>]
NoRet  == [kind |-> "none", exc |-> "none", value |-> 0]
NoHist == [opened |-> 0, closed |-> 0, commits |-> 0, rollbacks |-> 0,
           executed |-> << >>, raisedAt |-> 0, failed |-> "none", cause |-> "none",
           pre |-> << >>]

\* the statements a transaction step starts with
StepEntry ==
    [debit_source_customer  |-> "debit_select",
     credit_target_customer |-> "credit_update",
     log_transaction        |-> "log_insert"]

\* `for operation in operations:` - where control goes for operations[i]
LoopTarget(operations, i) ==
    IF i > Len(operations) THEN "eit_commit" ELSE StepEntry[operations[i]]

Set(f, p, v) == [f EXCEPT ![p] = v]

\* ------------------------------------------------------------ bookkeeping
Bump(h, f) == [h EXCEPT ![f] = @ + 1]

\* an exception leaves the try block of execute_in_transaction at step idx
\* (h is the invocation's history so far)
Raise(p, e, h) ==
    /\ loc'  = Set(loc, p, [loc[p] EXCEPT !.exc = e])
    /\ hist' = Set(hist, p, [h EXCEPT !.raisedAt = loc[p].idx, !.failed = pc[p],
                                      !.cause = e])
    /\ pc'   = Set(pc, p, "eit_rollback")

\* (mutant) the result of the step is not kept
StepDone_NoAppend(p) ==
    /\ loc' = Set(loc, p, [loc[p] EXCEPT !.idx = @ + 1])
    /\ pc'  = Set(pc, p, LoopTarget(loc[p].operations, loc[p].idx + 1))

\* a step of `operations` returned: results.append(result), next iteration
StepDone(p) ==
    /\ loc' = Set(loc, p, [loc[p] EXCEPT !.results = Append(@, "None"), !.idx = @ + 1])
    /\ pc'  = Set(pc, p, LoopTarget(loc[p].operations, loc[p].idx + 1))

\* the first statement of a step runs: the step has been entered
Entered(p) ==
    [hist[p] EXCEPT !.executed = Append(@, loc[p].operations[loc[p].idx])]

\* --------------------------------------- TransactionService.transfer_customer_credit
TransferOperations ==
    <<"debit_source_customer", "credit_target_customer", "log_transaction">>

\* a caller invokes transfer_customer_credit(from_customer_id, to_customer_id, amount)
TransferCustomerCredit(p, from, to, amt) ==
    /\ pc[p] = "idle"
    /\ calls < MaxCalls
    /\ identity.TransactionLog <= MaxLog
    /\ calls' = calls + 1
    /\ args'  = Set(args, p, [op |-> "transfer", from_customer_id |-> from,
                              to_customer_id |-> to, amount |-> amt])
    /\ loc'   = Set(loc, p, [NoLoc EXCEPT !.operations = TransferOperations])
    /\ ret'   = Set(ret, p, NoRet)
    /\ hist'  = Set(hist, p, [NoHist EXCEPT !.pre = db])
    /\ pc'    = Set(pc, p, "ensure_connect")
    /\ UNCHANGED <<db, logTable, identity, ws>>

\* ConsoleUI.transfer_credit: amount <= 0 is refused before the service is called
TransferCreditUI(p, from, to, amt) ==
    /\ pc[p] = "idle"
    /\ calls < MaxCalls
    /\ IF amt <= 0
       THEN /\ calls' = calls + 1
            /\ args'  = Set(args, p, [op |-> "ui_transfer", from_customer_id |-> from,
                                      to_customer_id |-> to, amount |-> amt])
            /\ loc'   = Set(loc, p, NoLoc)
            /\ ret'   = Set(ret, p, [NoRet EXCEPT !.kind = "rejected"])
            /\ hist'  = Set(hist, p, [NoHist EXCEPT !.pre = db])
            /\ pc'    = Set(pc, p, "done")
            /\ UNCHANGED <<db, logTable, identity, ws>>
       ELSE TransferCustomerCredit(p, from, to, amt)

\* _ensure_transaction_log_table: pyodbc.connect, outside any try
EnsureConnect(p) ==
    /\ pc[p] = "ensure_connect"
    /\ \E ok \in BOOLEAN :
        IF ok
        THEN /\ hist' = Set(hist, p, Bump(hist[p], "opened"))
             /\ pc'   = Set(pc, p, "ensure_create")
             /\ UNCHANGED ret
        ELSE \* the error leaves transfer_customer_credit
             /\ ret'  = Set(ret, p, [NoRet EXCEPT !.kind = "raise", !.exc = "ConnectError"])
             /\ pc'   = Set(pc, p, "done")
             /\ UNCHANGED hist
    /\ UNCHANGED <<db, logTable, identity, ws, args, loc, calls>>

\* _ensure_transaction_log_table: IF NOT EXISTS CREATE TABLE; commit;
\* except: pass; finally: close
EnsureCreate(p) ==
    /\ pc[p] = "ensure_create"
    /\ \E ok \in BOOLEAN : logTable' = (logTable \/ ok)
    /\ hist' = Set(hist, p, Bump(hist[p], "closed"))
    /\ pc'   = Set(pc, p, "eit_connect")
    /\ UNCHANGED <<db, identity, ws, args, loc, ret, calls>>

\* ----------------------------------- TransactionManager.execute_in_transaction
\* pyodbc.connect; autocommit = False; cursor(); results = []
EitConnect(p) ==
    /\ pc[p] = "eit_connect"
    /\ \E ok \in BOOLEAN :
        IF ok
        THEN /\ hist' = Set(hist, p, Bump(hist[p], "opened"))
             /\ loc'  = Set(loc, p, [loc[p] EXCEPT !.idx = 1, !.results = << >>])
             /\ pc'   = Set(pc, p, LoopTarget(loc[p].operations, 1))
        ELSE \* raised before the try: no rollback, no close
             /\ loc'  = Set(loc, p, [loc[p] EXCEPT !.exc = "ConnectError"])
             /\ pc'   = Set(pc, p, "eit_return")
             /\ UNCHANGED hist
    /\ UNCHANGED <<db, logTable, identity, ws, args, ret, calls>>

\* debit_source_customer: SELECT CreditLimit, the two checks
DebitSelect(p) ==
    /\ pc[p] = "debit_select"
    /\ ~Blocked(p, "Customers", args[p].from_customer_id)
    /\ \E ok \in BOOLEAN :
        LET result == Read(p, "Customers", args[p].from_customer_id) IN
        IF ~ok THEN Raise(p, "StoreError", Entered(p))
        ELSE IF ~result.exists THEN Raise(p, "ValueError: does not exist", Entered(p))
        ELSE IF result.CreditLimit < args[p].amount
        THEN Raise(p, "ValueError: insufficient credit", Entered(p))
        ELSE
            /\ hist' = Set(hist, p, Entered(p))
            /\ pc' = Set(pc, p, "debit_update")
            /\ UNCHANGED loc
    /\ UNCHANGED <<db, logTable, identity, ws, args, ret, calls>>

\* (mutant) the update assigns the parameter instead of adding it
UpdateCredit_Absolute(p, id, delta) ==
    LET row == Read(p, "Customers", id) IN
    IF row.exists
    THEN Put(ws[p], "Customers", id, CustomerRow(delta))
    ELSE ws[p]

\* UPDATE Customers SET CreditLimit = CreditLimit + delta WHERE CustomerID = id
UpdateCredit(p, id, delta) ==
    LET row == Read(p, "Customers", id) IN
    IF row.exists
    THEN Put(ws[p], "Customers", id, CustomerRow(row.CreditLimit + delta))
    ELSE ws[p]

\* (mutant) the debit is executed on an autocommit connection
DebitUpdate_Autocommit(p) ==
    /\ pc[p] = "debit_update"
    /\ ~Blocked(p, "Customers", args[p].from_customer_id)
    /\ \E ok \in BOOLEAN :
        IF ok
        THEN /\ db' = Apply(db, UpdateCredit(p, args[p].from_customer_id, 0 - args[p].amount))
             /\ StepDone(p)
             /\ UNCHANGED hist
        ELSE /\ Raise(p, "StoreError", hist[p])
             /\ UNCHANGED db
    /\ UNCHANGED <<ws, logTable, identity, args, ret, calls>>

\* (mutant) the UPDATE repeats the balance check: ... WHERE CreditLimit >= ?
DebitUpdate_Guarded(p) ==
    /\ pc[p] = "debit_update"
    /\ ~Blocked(p, "Customers", args[p].from_customer_id)
    /\ \E ok \in BOOLEAN :
        IF ok
        THEN /\ ws' = Set(ws, p,
                      IF Read(p, "Customers", args[p].from_customer_id).CreditLimit
                             >= args[p].amount
                      THEN UpdateCredit(p, args[p].from_customer_id, 0 - args[p].amount)
                      ELSE ws[p])
             /\ StepDone(p)
             /\ UNCHANGED hist
        ELSE /\ Raise(p, "StoreError", hist[p])
             /\ UNCHANGED ws
    /\ UNCHANGED <<db, logTable, identity, args, ret, calls>>

\* (mutant) the UPDATE writes a balance computed by the caller from the value
\* it read when the call began, instead of CreditLimit - ?
DebitUpdate_Stale(p) ==
    /\ pc[p] = "debit_update"
    /\ ~Blocked(p, "Customers", args[p].from_customer_id)
    /\ \E ok \in BOOLEAN :
        IF ok
        THEN /\ ws' = Set(ws, p, Put(ws[p], "Customers", args[p].from_customer_id,
                          CustomerRow(hist[p].pre.Customers[args[p].from_customer_id].CreditLimit
                                      - args[p].amount)))
             /\ StepDone(p)
             /\ UNCHANGED hist
        ELSE /\ Raise(p, "StoreError", hist[p])
             /\ UNCHANGED ws
    /\ UNCHANGED <<db, logTable, identity, args, ret, calls>>

\* debit_source_customer: UPDATE ... CreditLimit - ?
DebitUpdate(p) ==
    /\ pc[p] = "debit_update"
    /\ ~Blocked(p, "Customers", args[p].from_customer_id)
    /\ \E ok \in BOOLEAN :
        IF ok
        THEN /\ ws' = Set(ws, p, UpdateCredit(p, args[p].from_customer_id, 0 - args[p].amount))
             /\ StepDone(p)
             /\ UNCHANGED hist
        ELSE /\ Raise(p, "StoreError", hist[p])
             /\ UNCHANGED ws
    /\ UNCHANGED <<db, logTable, identity, args, ret, calls>>

\* credit_target_customer: UPDATE ... CreditLimit + ? (no row: nothing updated, no error)
CreditUpdate(p) ==
    /\ pc[p] = "credit_update"
    /\ ~Blocked(p, "Customers", args[p].to_customer_id)
    /\ \E ok \in BOOLEAN :
        IF ok
        THEN /\ ws' = Set(ws, p, UpdateCredit(p, args[p].to_customer_id, args[p].amount))
             /\ StepDone(p)
             /\ hist' = Set(hist, p, Entered(p))
        ELSE /\ Raise(p, "StoreError", Entered(p))
             /\ UNCHANGED ws
    /\ UNCHANGED <<db, logTable, identity, args, ret, calls>>

\* the FOREIGN KEYs of TransactionLog: both ids must reference a Customers row
LogForeignKeysHold(p) ==
    /\ Read(p, "Customers", args[p].from_customer_id).exists
    /\ Read(p, "Customers", args[p].to_customer_id).exists

\* (mutant) source and destination are written to the wrong columns
LogEntry_Swapped(p) ==
    LogRow(args[p].to_customer_id, args[p].from_customer_id, args[p].amount)

\* the row log_transaction inserts: (from_id, to_id, amt)
LogEntry(p) ==
    LogRow(args[p].from_customer_id, args[p].to_customer_id, args[p].amount)

\* log_transaction: INSERT INTO TransactionLog
LogInsert(p) ==
    /\ pc[p] = "log_insert"
    /\ ~Blocked(p, "Customers", args[p].from_customer_id)
    /\ ~Blocked(p, "Customers", args[p].to_customer_id)
    /\ \E ok \in BOOLEAN :
        IF ok /\ logTable /\ LogForeignKeysHold(p)
        THEN /\ ws' = Set(ws, p, Put(ws[p], "TransactionLog", identity.TransactionLog,
                           LogEntry(p)))
             /\ identity' = [identity EXCEPT !.TransactionLog = @ + 1]
             /\ StepDone(p)
             /\ hist' = Set(hist, p, Entered(p))
        ELSE /\ Raise(p, "StoreError", Entered(p))
             /\ UNCHANGED <<ws, identity>>
    /\ UNCHANGED <<db, logTable, args, ret, calls>>

\* the statement p is executing waits for a row lock of another transaction
Waiting(p) ==
    \/ pc[p] \in {"debit_select", "debit_update"}
          /\ Blocked(p, "Customers", args[p].from_customer_id)
    \/ pc[p] = "credit_update" /\ Blocked(p, "Customers", args[p].to_customer_id)
    \/ pc[p] = "log_insert"
          /\ (\/ Blocked(p, "Customers", args[p].from_customer_id)
              \/ Blocked(p, "Customers", args[p].to_customer_id))

\* cursor.execute raises when the server ends a lock wait: two transactions
\* wait for each other and one of them is chosen as the deadlock victim
DeadlockVictim(p) ==
    /\ Waiting(p)
    /\ \E q \in Procs \ {p} : Waiting(q)
    /\ Raise(p, "StoreError", IF pc[p] = "debit_update" THEN hist[p] ELSE Entered(p))
    /\ UNCHANGED <<db, logTable, identity, ws, args, ret, calls>>

\* connection.commit(); return results
EitCommit(p) ==
    /\ pc[p] = "eit_commit"
    /\ \E ok \in BOOLEAN :
        IF ok
        THEN /\ db' = Apply(db, ws[p])
             /\ ws' = Set(ws, p, NoWrites)
             /\ hist' = Set(hist, p, Bump(hist[p], "commits"))
             /\ pc' = Set(pc, p, "eit_close")
             /\ UNCHANGED loc
        ELSE /\ loc' = Set(loc, p, [loc[p] EXCEPT !.exc = "CommitError"])
             /\ pc' = Set(pc, p, "eit_rollback")
             /\ UNCHANGED <<db, ws, hist>>
    /\ UNCHANGED <<logTable, identity, args, ret, calls>>

\* (mutant) the handler commits what the earlier steps wrote
EitRollback_Commits(p) ==
    /\ pc[p] = "eit_rollback"
    /\ db' = Apply(db, ws[p])
    /\ ws' = Set(ws, p, NoWrites)
    /\ hist' = Set(hist, p, Bump(hist[p], "rollbacks"))
    /\ pc' = Set(pc, p, "eit_close")
    /\ UNCHANGED <<logTable, identity, args, loc, ret, calls>>

\* (mutant) without the finally clause: an error raised by rollback() leaves
\* the function before close()
EitRollback_NoFinally(p) ==
    /\ pc[p] = "eit_rollback"
    /\ \E ok \in BOOLEAN :
        IF ok
        THEN /\ ws' = Set(ws, p, NoWrites)
             /\ hist' = Set(hist, p, Bump(hist[p], "rollbacks"))
             /\ pc' = Set(pc, p, "eit_close")
             /\ UNCHANGED loc
        ELSE /\ loc' = Set(loc, p, [loc[p] EXCEPT !.exc = "RollbackError"])
             /\ ws' = Set(ws, p, NoWrites)
             /\ pc' = Set(pc, p, "eit_return")
             /\ UNCHANGED hist
    /\ UNCHANGED <<db, logTable, identity, args, ret, calls>>

\* except Exception as e: connection.rollback(); raise e
EitRollback(p) ==
    /\ pc[p] = "eit_rollback"
    /\ \E ok \in BOOLEAN :
        IF ok
        THEN /\ ws' = Set(ws, p, NoWrites)
             /\ hist' = Set(hist, p, Bump(hist[p], "rollbacks"))
             /\ UNCHANGED loc
        ELSE \* rollback() itself raised: that error replaces e
             /\ loc' = Set(loc, p, [loc[p] EXCEPT !.exc = "RollbackError"])
             /\ UNCHANGED <<ws, hist>>
    /\ pc' = Set(pc, p, "eit_close")
    /\ UNCHANGED <<db, logTable, identity, args, ret, calls>>

\* finally: connection.close() - the server discards an open transaction
EitClose(p) ==
    /\ pc[p] = "eit_close"
    /\ ws' = Set(ws, p, NoWrites)
    /\ hist' = Set(hist, p, Bump(hist[p], "closed"))
    /\ pc' = Set(pc, p, "eit_return")
    /\ UNCHANGED <<db, logTable, identity, args, loc, ret, calls>>

\* transfer_customer_credit: return True / except Exception: return False
TransferReturn(p) ==
    /\ pc[p] = "eit_return"
    /\ ret' = Set(ret, p, IF loc[p].exc = "none"
                          THEN [NoRet EXCEPT !.kind = "True"]
                          ELSE [NoRet EXCEPT !.kind = "False", !.exc = loc[p].exc])
    /\ loc' = Set(loc, p, NoLoc)
    /\ pc' = Set(pc, p, "done")
    /\ UNCHANGED <<db, logTable, identity, ws, args, hist, calls>>

\* ------------------------- TransactionService.place_order_with_inventory_check
\* an exception leaves the try block of a workflow that manages its own
\* connection: control goes to its except clause
Fail(p, e, handler) ==
    /\ loc'  = Set(loc, p, [loc[p] EXCEPT !.exc = e])
    /\ hist' = Set(hist, p, [hist[p] EXCEPT !.failed = pc[p]])
    /\ pc'   = Set(pc, p, handler)

\* (mutant) the running total forgets the quantity
ItemTotal_NoQuantity(price, quantity) == price

\* item_total = price * quantity
ItemTotal(price, quantity) == price * quantity

\* where the loops over order_items_data go for item i
CheckTarget(items, i) == IF i > Len(items) THEN "place_insert_order" ELSE "place_check"
ItemTarget(items, i)  == IF i > Len(items) THEN "place_update_total" ELSE "place_item"

\* a caller invokes place_order_with_inventory_check(customer_id, order_items_data)
PlaceOrderWithInventoryCheck(p, cust, items) ==
    /\ pc[p] = "idle"
    /\ calls < MaxCalls
    /\ identity.Orders <= MaxOrders
    /\ calls' = calls + 1
    /\ args'  = Set(args, p, [op |-> "place", customer_id |-> cust,
                              order_items_data |-> items])
    /\ loc'   = Set(loc, p, NoLoc)
    /\ ret'   = Set(ret, p, NoRet)
    /\ hist'  = Set(hist, p, [NoHist EXCEPT !.pre = db])
    /\ pc'    = Set(pc, p, "place_connect")
    /\ UNCHANGED <<db, logTable, identity, ws>>

\* pyodbc.connect, outside the try; autocommit = False; cursor()
PlaceConnect(p) ==
    /\ pc[p] = "place_connect"
    /\ \E ok \in BOOLEAN :
        IF ok
        THEN /\ hist' = Set(hist, p, Bump(hist[p], "opened"))
             /\ loc'  = Set(loc, p, [loc[p] EXCEPT !.i = 1])
             /\ pc'   = Set(pc, p, CheckTarget(args[p].order_items_data, 1))
             /\ UNCHANGED ret
        ELSE /\ ret'  = Set(ret, p, [NoRet EXCEPT !.kind = "raise", !.exc = "ConnectError"])
             /\ pc'   = Set(pc, p, "done")
             /\ UNCHANGED <<hist, loc>>
    /\ UNCHANGED <<db, logTable, identity, ws, args, calls>>

\* (mutant) the availability flag of the product is not looked at
PlaceCheck_IgnoresStock(p) ==
    /\ pc[p] = "place_check"
    /\ LET item == args[p].order_items_data[loc[p].i]
           result == Read(p, "Products", item.product_id)
       IN /\ ~Blocked(p, "Products", item.product_id)
          /\ \E ok \in BOOLEAN :
              IF ~ok THEN Fail(p, "StoreError", "place_rollback")
              ELSE IF ~result.exists
              THEN Fail(p, "ValueError: does not exist", "place_rollback")
              ELSE /\ loc' = Set(loc, p, [loc[p] EXCEPT !.i = @ + 1])
                   /\ pc'  = Set(pc, p, CheckTarget(args[p].order_items_data, loc[p].i + 1))
                   /\ UNCHANGED hist
    /\ UNCHANGED <<db, logTable, identity, ws, args, ret, calls>>

\* check_inventory_and_reserve, one iteration: SELECT InStock, Price
PlaceCheck(p) ==
    /\ pc[p] = "place_check"
    /\ LET item == args[p].order_items_data[loc[p].i]
           result == Read(p, "Products", item.product_id)
       IN /\ ~Blocked(p, "Products", item.product_id)
          /\ \E ok \in BOOLEAN :
              IF ~ok THEN Fail(p, "StoreError", "place_rollback")
              ELSE IF ~result.exists
              THEN Fail(p, "ValueError: does not exist", "place_rollback")
              ELSE IF ~result.InStock
              THEN Fail(p, "ValueError: out of stock", "place_rollback")
              ELSE /\ loc' = Set(loc, p, [loc[p] EXCEPT !.i = @ + 1])
                   /\ pc'  = Set(pc, p, CheckTarget(args[p].order_items_data, loc[p].i + 1))
                   /\ UNCHANGED hist
    /\ UNCHANGED <<db, logTable, identity, ws, args, ret, calls>>

\* (mutant) the Orders row is inserted on an autocommit connection
PlaceInsertOrder_Autocommit(p) ==
    /\ pc[p] = "place_insert_order"
    /\ \E ok \in BOOLEAN :
        IF ok
        THEN /\ db' = Apply(db, Put(NoWrites, "Orders", identity.Orders,
                                    OrderRow(args[p].customer_id, 0, "processing")))
             /\ identity' = [identity EXCEPT !.Orders = @ + 1]
             /\ loc' = Set(loc, p, [loc[p] EXCEPT !.order_id = identity.Orders,
                                                  !.total_amount = 0, !.i = 1])
             /\ pc'  = Set(pc, p, ItemTarget(args[p].order_items_data, 1))
             /\ UNCHANGED hist
        ELSE /\ Fail(p, "StoreError", "place_rollback")
             /\ UNCHANGED <<db, identity>>
    /\ UNCHANGED <<ws, logTable, args, ret, calls>>

\* INSERT INTO Orders (CustomerID, TotalAmount, OrderStatus) VALUES (?, 0, ?);
\* order_id = SCOPE_IDENTITY(); total_amount = 0
PlaceInsertOrder(p) ==
    /\ pc[p] = "place_insert_order"
    /\ \E ok \in BOOLEAN :
        IF ok
        THEN /\ ws' = Set(ws, p, Put(ws[p], "Orders", identity.Orders,
                                     OrderRow(args[p].customer_id, 0, "processing")))
             /\ identity' = [identity EXCEPT !.Orders = @ + 1]
             /\ loc' = Set(loc, p, [loc[p] EXCEPT !.order_id = identity.Orders,
                                                  !.total_amount = 0, !.i = 1])
             /\ pc'  = Set(pc, p, ItemTarget(args[p].order_items_data, 1))
             /\ UNCHANGED hist
        ELSE /\ Fail(p, "StoreError", "place_rollback")
             /\ UNCHANGED <<ws, identity>>
    /\ UNCHANGED <<db, logTable, args, ret, calls>>

\* (mutant) the OrderItems row is inserted on an autocommit connection
PlaceItem_Autocommit(p) ==
    /\ pc[p] = "place_item"
    /\ LET item == args[p].order_items_data[loc[p].i]
           result == Read(p, "Products", item.product_id)
       IN /\ ~Blocked(p, "Products", item.product_id)
          /\ \E ok \in BOOLEAN :
              IF ok /\ result.exists
              THEN /\ db' = Apply(db, Put(NoWrites, "OrderItems", identity.OrderItems,
                                  ItemRow(loc[p].order_id, item.product_id,
                                          item.quantity, result.Price)))
                   /\ identity' = [identity EXCEPT !.OrderItems = @ + 1]
                   /\ loc' = Set(loc, p, [loc[p] EXCEPT
                                  !.total_amount = @ + ItemTotal(result.Price, item.quantity),
                                  !.i = @ + 1])
                   /\ pc'  = Set(pc, p, ItemTarget(args[p].order_items_data, loc[p].i + 1))
                   /\ UNCHANGED hist
              ELSE /\ Fail(p, "StoreError", "place_rollback")
                   /\ UNCHANGED <<db, identity>>
    /\ UNCHANGED <<ws, logTable, args, ret, calls>>

\* one iteration of step 3: SELECT Price; total_amount += price * quantity;
\* INSERT INTO OrderItems
PlaceItem(p) ==
    /\ pc[p] = "place_item"
    /\ LET item == args[p].order_items_data[loc[p].i]
           result == Read(p, "Products", item.product_id)
       IN /\ ~Blocked(p, "Products", item.product_id)
          /\ \E ok \in BOOLEAN :
              IF ok /\ result.exists
              THEN /\ ws' = Set(ws, p, Put(ws[p], "OrderItems", identity.OrderItems,
                                  ItemRow(loc[p].order_id, item.product_id,
                                          item.quantity, result.Price)))
                   /\ identity' = [identity EXCEPT !.OrderItems = @ + 1]
                   /\ loc' = Set(loc, p, [loc[p] EXCEPT
                                  !.total_amount = @ + ItemTotal(result.Price, item.quantity),
                                  !.i = @ + 1])
                   /\ pc'  = Set(pc, p, ItemTarget(args[p].order_items_data, loc[p].i + 1))
                   /\ UNCHANGED hist
              ELSE /\ Fail(p, "StoreError", "place_rollback")
                   /\ UNCHANGED <<ws, identity>>
    /\ UNCHANGED <<db, logTable, args, ret, calls>>

\* step 4: UPDATE Orders SET TotalAmount = ? WHERE OrderID = ?
PlaceUpdateTotal(p) ==
    /\ pc[p] = "place_update_total"
    /\ \E ok \in BOOLEAN :
        IF ok
        THEN /\ ws' = Set(ws, p, Put(ws[p], "Orders", loc[p].order_id,
                            [Read(p, "Orders", loc[p].order_id) EXCEPT
                                 !.TotalAmount = loc[p].total_amount]))
             /\ pc' = Set(pc, p, "place_commit")
             /\ UNCHANGED <<loc, hist>>
        ELSE /\ Fail(p, "StoreError", "place_rollback")
             /\ UNCHANGED ws
    /\ UNCHANGED <<db, logTable, identity, args, ret, calls>>

\* connection.commit(); return order_id
\* (mutant) after a failed commit() the call waits for the store for ever
PlaceCommit_Hangs(p) ==
    /\ pc[p] = "place_commit"
    /\ \E ok \in BOOLEAN :
        IF ok
        THEN /\ db' = Apply(db, ws[p])
             /\ ws' = Set(ws, p, NoWrites)
             /\ hist' = Set(hist, p, Bump(hist[p], "commits"))
             /\ pc' = Set(pc, p, "place_close")
             /\ UNCHANGED loc
        ELSE /\ Fail(p, "CommitError", "place_wait")
             /\ UNCHANGED <<db, ws>>
    /\ UNCHANGED <<logTable, identity, args, ret, calls>>

\* connection.commit(); return order_id
PlaceCommit(p) ==
    /\ pc[p] = "place_commit"
    /\ \E ok \in BOOLEAN :
        IF ok
        THEN /\ db' = Apply(db, ws[p])
             /\ ws' = Set(ws, p, NoWrites)
             /\ hist' = Set(hist, p, Bump(hist[p], "commits"))
             /\ pc' = Set(pc, p, "place_close")
             /\ UNCHANGED loc
        ELSE /\ Fail(p, "CommitError", "place_rollback")
             /\ UNCHANGED <<db, ws>>
    /\ UNCHANGED <<logTable, identity, args, ret, calls>>

\* except Exception as e: connection.rollback(); raise e
PlaceRollback(p) ==
    /\ pc[p] = "place_rollback"
    /\ \E ok \in BOOLEAN :
        IF ok
        THEN /\ ws' = Set(ws, p, NoWrites)
             /\ hist' = Set(hist, p, Bump(hist[p], "rollbacks"))
             /\ UNCHANGED loc
        ELSE /\ loc' = Set(loc, p, [loc[p] EXCEPT !.exc = "RollbackError"])
             /\ UNCHANGED <<ws, hist>>
    /\ pc' = Set(pc, p, "place_close")
    /\ UNCHANGED <<db, logTable, identity, args, ret, calls>>

\* finally: connection.close(); the call returns order_id or raises
PlaceClose(p) ==
    /\ pc[p] = "place_close"
    /\ ws' = Set(ws, p, NoWrites)
    /\ hist' = Set(hist, p, Bump(hist[p], "closed"))
    /\ ret' = Set(ret, p, IF loc[p].exc = "none"
                          THEN [NoRet EXCEPT !.kind = "order_id", !.value = loc[p].order_id]
                          ELSE [NoRet EXCEPT !.kind = "raise", !.exc = loc[p].exc])
    /\ loc' = Set(loc, p, NoLoc)
    /\ pc' = Set(pc, p, "done")
    /\ UNCHANGED <<db, logTable, identity, args, calls>>

\* --------------------------------- TransactionService.cancel_order_with_refund
\* the elements of a set of ids as a list, in ascending order
RECURSIVE Ascending(_)
Ascending(S) ==
    IF S = {} THEN << >>
    ELSE LET m == CHOOSE x \in S : \A y \in S : x <= y
         IN <<m>> \o Ascending(S \ {m})

\* the OrderItems rows of order oid that p's connection sees
ItemsOf(p, oid) ==
    {i \in ItemIds : Read(p, "OrderItems", i).exists /\ Read(p, "OrderItems", i).OrderID = oid}

\* a caller invokes cancel_order_with_refund(order_id)
CancelOrderWithRefund(p, oid) ==
    /\ pc[p] = "idle"
    /\ calls < MaxCalls
    /\ calls' = calls + 1
    /\ args'  = Set(args, p, [op |-> "cancel", order_id |-> oid])
    /\ loc'   = Set(loc, p, NoLoc)
    /\ ret'   = Set(ret, p, NoRet)
    /\ hist'  = Set(hist, p, [NoHist EXCEPT !.pre = db])
    /\ pc'    = Set(pc, p, "cancel_connect")
    /\ UNCHANGED <<db, logTable, identity, ws>>

\* pyodbc.connect, outside the try; autocommit = False; cursor()
CancelConnect(p) ==
    /\ pc[p] = "cancel_connect"
    /\ \E ok \in BOOLEAN :
        IF ok
        THEN /\ hist' = Set(hist, p, Bump(hist[p], "opened"))
             /\ pc'   = Set(pc, p, "cancel_get_order_details")
             /\ UNCHANGED ret
        ELSE /\ ret'  = Set(ret, p, [NoRet EXCEPT !.kind = "raise", !.exc = "ConnectError"])
             /\ pc'   = Set(pc, p, "done")
             /\ UNCHANGED hist
    /\ UNCHANGED <<db, logTable, identity, ws, args, loc, calls>>

\* get_order_details: SELECT CustomerID, TotalAmount, OrderStatus; the two checks
CancelGetOrderDetails(p) ==
    /\ pc[p] = "cancel_get_order_details"
    /\ ~Blocked(p, "Orders", args[p].order_id)
    /\ LET result == Read(p, "Orders", args[p].order_id) IN
       \E ok \in BOOLEAN :
          IF ~ok THEN Fail(p, "StoreError", "cancel_rollback")
          ELSE IF ~result.exists
          THEN Fail(p, "ValueError: does not exist", "cancel_rollback")
          ELSE IF result.OrderStatus = "cancelled"
          THEN Fail(p, "ValueError: already cancelled", "cancel_rollback")
          ELSE /\ loc' = Set(loc, p, [loc[p] EXCEPT !.customer_id = result.CustomerID,
                                                   !.total_amount = result.TotalAmount])
               /\ pc'  = Set(pc, p, "cancel_update_order_status")
               /\ UNCHANGED hist
    /\ UNCHANGED <<db, logTable, identity, ws, args, ret, calls>>

\* (mutant) the status is updated on an autocommit connection
CancelUpdateOrderStatus_Autocommit(p) ==
    /\ pc[p] = "cancel_update_order_status"
    /\ ~Blocked(p, "Orders", args[p].order_id)
    /\ LET row == Read(p, "Orders", args[p].order_id) IN
       \E ok \in BOOLEAN :
          IF ok
          THEN /\ db' = IF row.exists
                        THEN Apply(db, Put(NoWrites, "Orders", args[p].order_id,
                                           [row EXCEPT !.OrderStatus = "cancelled"]))
                        ELSE db
               /\ pc' = Set(pc, p, "cancel_refund_customer_credit")
               /\ UNCHANGED <<loc, hist>>
          ELSE /\ Fail(p, "StoreError", "cancel_rollback")
               /\ UNCHANGED db
    /\ UNCHANGED <<ws, logTable, identity, args, ret, calls>>

\* update_order_status: UPDATE Orders SET OrderStatus = 'cancelled'
CancelUpdateOrderStatus(p) ==
    /\ pc[p] = "cancel_update_order_status"
    /\ ~Blocked(p, "Orders", args[p].order_id)
    /\ LET row == Read(p, "Orders", args[p].order_id) IN
       \E ok \in BOOLEAN :
          IF ok
          THEN /\ ws' = Set(ws, p, IF row.exists
                                   THEN Put(ws[p], "Orders", args[p].order_id,
                                            [row EXCEPT !.OrderStatus = "cancelled"])
                                   ELSE ws[p])
               /\ pc' = Set(pc, p, "cancel_refund_customer_credit")
               /\ UNCHANGED <<loc, hist>>
          ELSE /\ Fail(p, "StoreError", "cancel_rollback")
               /\ UNCHANGED ws
    /\ UNCHANGED <<db, logTable, identity, args, ret, calls>>

\* (mutant) the refund step updates nothing
CancelRefundCustomerCredit_Skipped(p) ==
    /\ pc[p] = "cancel_refund_customer_credit"
    /\ loc[p].customer_id \in CustIds => ~Blocked(p, "Customers", loc[p].customer_id)
    /\ \E ok \in BOOLEAN :
          IF ok
          THEN /\ pc' = Set(pc, p, "cancel_select_items")
               /\ UNCHANGED <<loc, hist>>
          ELSE Fail(p, "StoreError", "cancel_rollback")
    /\ UNCHANGED <<db, logTable, identity, ws, args, ret, calls>>

\* refund_customer_credit: UPDATE Customers SET CreditLimit = CreditLimit + ?
CancelRefundCustomerCredit(p) ==
    /\ pc[p] = "cancel_refund_customer_credit"
    /\ loc[p].customer_id \in CustIds => ~Blocked(p, "Customers", loc[p].customer_id)
    /\ \E ok \in BOOLEAN :
          IF ok
          THEN /\ ws' = Set(ws, p, IF loc[p].customer_id \in CustIds
                                   THEN UpdateCredit(p, loc[p].customer_id,
                                                     loc[p].total_amount)
                                   ELSE ws[p])
               /\ pc' = Set(pc, p, "cancel_select_items")
               /\ UNCHANGED <<loc, hist>>
          ELSE /\ Fail(p, "StoreError", "cancel_rollback")
               /\ UNCHANGED ws
    /\ UNCHANGED <<db, logTable, identity, args, ret, calls>>

\* update_inventory: SELECT ProductID, Quantity FROM OrderItems; fetchall()
CancelSelectItems(p) ==
    /\ pc[p] = "cancel_select_items"
    /\ \A i \in ItemIds : ~Blocked(p, "OrderItems", i)
    /\ \E ok \in BOOLEAN :
          IF ok
          THEN LET items == Ascending(ItemsOf(p, args[p].order_id)) IN
               /\ loc' = Set(loc, p, [loc[p] EXCEPT !.items =
                             [k \in 1..Len(items) |->
                                  Read(p, "OrderItems", items[k]).ProductID]])
               /\ pc' = Set(pc, p, IF items = << >> THEN "cancel_commit"
                                   ELSE "cancel_restock")
               /\ UNCHANGED hist
          ELSE Fail(p, "StoreError", "cancel_rollback")
    /\ UNCHANGED <<db, logTable, identity, ws, args, ret, calls>>

\* update_inventory, one iteration: UPDATE Products SET InStock = 1
\* (mutant) the UPDATE has no WHERE clause: every product is marked in stock
CancelRestock_Everything(p) ==
    /\ pc[p] = "cancel_restock"
    /\ \A i \in ProdIds : ~Blocked(p, "Products", i)
    /\ \E ok \in BOOLEAN :
          IF ok
          THEN /\ ws' = Set(ws, p,
                      [k \in {Key("Products", i) : i \in Stocked} |->
                           [Read(p, "Products", k[2]) EXCEPT !.InStock = TRUE]] @@ ws[p])
               /\ loc' = Set(loc, p, [loc[p] EXCEPT !.items = Tail(@)])
               /\ pc' = Set(pc, p, IF Tail(loc[p].items) = << >> THEN "cancel_commit"
                                   ELSE "cancel_restock")
               /\ UNCHANGED hist
          ELSE /\ Fail(p, "StoreError", "cancel_rollback")
               /\ UNCHANGED ws
    /\ UNCHANGED <<db, logTable, identity, args, ret, calls>>

\* update_inventory, one iteration: UPDATE Products SET InStock = 1
CancelRestock(p) ==
    /\ pc[p] = "cancel_restock"
    /\ LET product_id == Head(loc[p].items)
           row == Read(p, "Products", product_id)
       IN /\ ~Blocked(p, "Products", product_id)
          /\ \E ok \in BOOLEAN :
              IF ok
              THEN /\ ws' = Set(ws, p, IF row.exists
                                       THEN Put(ws[p], "Products", product_id,
                                                [row EXCEPT !.InStock = TRUE])
                                       ELSE ws[p])
                   /\ loc' = Set(loc, p, [loc[p] EXCEPT !.items = Tail(@)])
                   /\ pc' = Set(pc, p, IF Tail(loc[p].items) = << >> THEN "cancel_commit"
                                       ELSE "cancel_restock")
                   /\ UNCHANGED hist
              ELSE /\ Fail(p, "StoreError", "cancel_rollback")
                   /\ UNCHANGED ws
    /\ UNCHANGED <<db, logTable, identity, args, ret, calls>>

\* connection.commit(); return True
CancelCommit(p) ==
    /\ pc[p] = "cancel_commit"
    /\ \E ok \in BOOLEAN :
        IF ok
        THEN /\ db' = Apply(db, ws[p])
             /\ ws' = Set(ws, p, NoWrites)
             /\ hist' = Set(hist, p, Bump(hist[p], "commits"))
             /\ pc' = Set(pc, p, "cancel_close")
             /\ UNCHANGED loc
        ELSE /\ Fail(p, "CommitError", "cancel_rollback")
             /\ UNCHANGED <<db, ws>>
    /\ UNCHANGED <<logTable, identity, args, ret, calls>>

\* except Exception as e: connection.rollback(); print; return False
CancelRollback(p) ==
    /\ pc[p] = "cancel_rollback"
    /\ \E ok \in BOOLEAN :
        IF ok
        THEN /\ ws' = Set(ws, p, NoWrites)
             /\ hist' = Set(hist, p, Bump(hist[p], "rollbacks"))
             /\ UNCHANGED loc
        ELSE \* rollback() raised inside the handler: nothing catches it
             /\ loc' = Set(loc, p, [loc[p] EXCEPT !.exc = "RollbackError"])
             /\ UNCHANGED <<ws, hist>>
    /\ pc' = Set(pc, p, "cancel_close")
    /\ UNCHANGED <<db, logTable, identity, args, ret, calls>>

\* finally: connection.close(); the call returns True or False, or raises
CancelClose(p) ==
    /\ pc[p] = "cancel_close"
    /\ ws' = Set(ws, p, NoWrites)
    /\ hist' = Set(hist, p, Bump(hist[p], "closed"))
    /\ ret' = Set(ret, p,
                  IF loc[p].exc = "none" THEN [NoRet EXCEPT !.kind = "True"]
                  ELSE IF loc[p].exc = "RollbackError"
                  THEN [NoRet EXCEPT !.kind = "raise", !.exc = "RollbackError"]
                  ELSE [NoRet EXCEPT !.kind = "False", !.exc = loc[p].exc])
    /\ loc' = Set(loc, p, NoLoc)
    /\ pc' = Set(pc, p, "done")
    /\ UNCHANGED <<db, logTable, identity, args, calls>>

\* ------------------------------------------ OrderService.get_order_with_details
\* what get_order_with_details has read so far
NoDetails == [order |-> NoOrder, customer |-> NoCustomer, order_items |-> << >>,
              exc |-> "none"]

\* a row of the OrderItems JOIN Products query, as the service returns it
DetailsItem(i, row) ==
    [order_item_id |-> i, order_id |-> row.OrderID, product_id |-> row.ProductID,
     quantity |-> row.Quantity, unit_price |-> row.UnitPrice]

\* a reader invokes get_order_with_details(order_id); reads repeat freely and
\* are not counted in `calls`
GetOrderWithDetails(p, oid) ==
    /\ pc[p] = "idle"
    /\ args' = Set(args, p, [op |-> "details", order_id |-> oid])
    /\ loc'  = Set(loc, p, NoDetails)
    /\ ret'  = Set(ret, p, NoRet)
    /\ hist' = Set(hist, p, NoHist)
    /\ pc'   = Set(pc, p, "details_order")
    /\ UNCHANGED <<db, logTable, identity, ws, calls>>

\* order = self.order_repo.get_by_id(order_id); if not order: return None
\* (a connection of its own; it reads committed rows and waits for a row that
\* an open transaction has written)
DetailsOrder(p) ==
    /\ pc[p] = "details_order"
    /\ ~Blocked(p, "Orders", args[p].order_id)
    /\ LET order == db.Orders[args[p].order_id] IN
       \E ok \in BOOLEAN :
          IF ~ok
          THEN /\ ret' = Set(ret, p, [NoRet EXCEPT !.kind = "raise", !.exc = "StoreError"])
               /\ pc'  = Set(pc, p, "done")
               /\ UNCHANGED loc
          ELSE IF ~order.exists
          THEN /\ ret' = Set(ret, p, [NoRet EXCEPT !.kind = "None"])
               /\ pc'  = Set(pc, p, "done")
               /\ UNCHANGED loc
          ELSE /\ loc' = Set(loc, p, [loc[p] EXCEPT !.order = order])
               /\ pc'  = Set(pc, p, "details_customer")
               /\ UNCHANGED ret
    /\ UNCHANGED <<db, logTable, identity, ws, args, hist, calls>>

\* customer = self.customer_repo.get_by_id(order.customer_id)
DetailsCustomer(p) ==
    /\ pc[p] = "details_customer"
    /\ LET cust_id == loc[p].order.CustomerID IN
       /\ cust_id \in CustIds => ~Blocked(p, "Customers", cust_id)
       /\ \E ok \in BOOLEAN :
          IF ok
          THEN /\ loc' = Set(loc, p, [loc[p] EXCEPT !.customer =
                             IF cust_id \in CustIds THEN db.Customers[cust_id]
                             ELSE NoCustomer])
               /\ pc'  = Set(pc, p, "details_items")
               /\ UNCHANGED ret
          ELSE /\ ret' = Set(ret, p, [NoRet EXCEPT !.kind = "raise", !.exc = "StoreError"])
               /\ pc'  = Set(pc, p, "done")
               /\ UNCHANGED loc
    /\ UNCHANGED <<db, logTable, identity, ws, args, hist, calls>>

\* SELECT ... FROM OrderItems oi JOIN Products p ... WHERE oi.OrderID = ?;
\* return {'order': ..., 'customer': ..., 'order_items': ...}
DetailsItems(p) ==
    /\ pc[p] = "details_items"
    /\ \A i \in ItemIds : ~Blocked(p, "OrderItems", i)
    /\ \A i \in ProdIds : ~Blocked(p, "Products", i)
    /\ \E ok \in BOOLEAN :
          IF ok
          THEN LET joined == {i \in ItemsOf(p, args[p].order_id) :
                                 db.Products[db.OrderItems[i].ProductID].exists}
                   ids == Ascending(joined)
               IN
               /\ loc' = Set(loc, p, [loc[p] EXCEPT !.order_items =
                             [k \in 1..Len(ids) |-> DetailsItem(ids[k], db.OrderItems[ids[k]])]])
               /\ ret' = Set(ret, p, [NoRet EXCEPT !.kind = "details"])
          ELSE /\ ret' = Set(ret, p, [NoRet EXCEPT !.kind = "raise", !.exc = "StoreError"])
               /\ UNCHANGED loc
    /\ pc' = Set(pc, p, "done")
    /\ UNCHANGED <<db, logTable, identity, ws, args, hist, calls>>

\* --------------------------------------------- OrderService.update_order_status
\* the statuses ConsoleUI.update_order_status lets through (three of the five)
Statuses == {"processing", "shipped", "cancelled"}

\* a caller invokes OrderService.update_order_status(order_id, new_status)
UpdateOrderStatus(p, oid, new_status) ==
    /\ pc[p] = "idle"
    /\ calls < MaxCalls
    /\ calls' = calls + 1
    /\ args'  = Set(args, p, [op |-> "update_status", order_id |-> oid,
                              new_status |-> new_status])
    /\ loc'   = Set(loc, p, NoDetails)
    /\ ret'   = Set(ret, p, NoRet)
    /\ hist'  = Set(hist, p, [NoHist EXCEPT !.pre = db])
    /\ pc'    = Set(pc, p, "status_get")
    /\ UNCHANGED <<db, logTable, identity, ws>>

\* order = self.order_repo.get_by_id(order_id); if not order: return False
StatusGet(p) ==
    /\ pc[p] = "status_get"
    /\ ~Blocked(p, "Orders", args[p].order_id)
    /\ LET order == db.Orders[args[p].order_id] IN
       \E ok \in BOOLEAN :
          IF ~ok
          THEN /\ ret' = Set(ret, p, [NoRet EXCEPT !.kind = "raise", !.exc = "StoreError"])
               /\ pc'  = Set(pc, p, "done")
               /\ UNCHANGED loc
          ELSE IF ~order.exists
          THEN /\ ret' = Set(ret, p, [NoRet EXCEPT !.kind = "False"])
               /\ pc'  = Set(pc, p, "done")
               /\ UNCHANGED loc
          ELSE /\ loc' = Set(loc, p, [loc[p] EXCEPT !.order = order])
               /\ pc'  = Set(pc, p, "status_update")
               /\ UNCHANGED ret
    /\ UNCHANGED <<db, logTable, identity, ws, args, hist, calls>>

\* order.order_status = new_status; self.order_repo.update(order): UPDATE Orders
\* SET CustomerID, TotalAmount, OrderStatus from the object; commit; return True
StatusUpdate(p) ==
    /\ pc[p] = "status_update"
    /\ ~Blocked(p, "Orders", args[p].order_id)
    /\ \E ok \in BOOLEAN :
          IF ok
          THEN /\ db' = IF db.Orders[args[p].order_id].exists
                        THEN Apply(db, Put(NoWrites, "Orders", args[p].order_id,
                                 [loc[p].order EXCEPT !.OrderStatus = args[p].new_status]))
                        ELSE db
               /\ hist' = Set(hist, p, Bump(Bump(hist[p], "commits"), "opened"))
               /\ ret' = Set(ret, p, [NoRet EXCEPT !.kind = "True"])
          ELSE /\ ret' = Set(ret, p, [NoRet EXCEPT !.kind = "raise", !.exc = "StoreError"])
               /\ UNCHANGED <<db, hist>>
    /\ pc' = Set(pc, p, "done")
    /\ UNCHANGED <<logTable, identity, ws, args, loc, calls>>

\* ----------------------------------------- OrderService.create_order_with_items
\* where the loops over order_items_data go for item i
ValidateTarget(items, i) == IF i > Len(items) THEN "create_add" ELSE "create_validate"
InsertTarget(items, i)   == IF i > Len(items) THEN "create_update" ELSE "create_item"

\* an exception leaves create_order_with_items: there is no try, it reaches
\* the caller; what was committed so far stays
CreateRaise(p, e) ==
    /\ ret' = Set(ret, p, [NoRet EXCEPT !.kind = "raise", !.exc = e])
    /\ hist' = Set(hist, p, [hist[p] EXCEPT !.failed = pc[p]])
    /\ pc'  = Set(pc, p, "done")

\* a caller invokes OrderService.create_order_with_items(customer_id, order_items_data)
CreateOrderWithItems(p, cust, items) ==
    /\ pc[p] = "idle"
    /\ calls < MaxCalls
    /\ identity.Orders <= MaxOrders
    /\ calls' = calls + 1
    /\ args'  = Set(args, p, [op |-> "create", customer_id |-> cust,
                              order_items_data |-> items])
    /\ loc'   = Set(loc, p, NoLoc)
    /\ ret'   = Set(ret, p, NoRet)
    /\ hist'  = Set(hist, p, [NoHist EXCEPT !.pre = db])
    /\ pc'    = Set(pc, p, "create_customer")
    /\ UNCHANGED <<db, logTable, identity, ws>>

\* customer = self.customer_repo.get_by_id(customer_id); if not customer: raise
CreateGetCustomer(p) ==
    /\ pc[p] = "create_customer"
    /\ ~Blocked(p, "Customers", args[p].customer_id)
    /\ \E ok \in BOOLEAN :
          IF ~ok THEN CreateRaise(p, "StoreError") /\ UNCHANGED loc
          ELSE IF ~db.Customers[args[p].customer_id].exists
          THEN CreateRaise(p, "ValueError: does not exist") /\ UNCHANGED loc
          ELSE /\ loc' = Set(loc, p, [loc[p] EXCEPT !.i = 1, !.total_amount = 0])
               /\ pc'  = Set(pc, p, ValidateTarget(args[p].order_items_data, 1))
               /\ UNCHANGED <<ret, hist>>
    /\ UNCHANGED <<db, logTable, identity, ws, args, calls>>

\* first loop, one iteration: product = self.product_repo.get_by_id(product_id);
\* the two checks; total_amount += product.price * quantity
CreateValidate(p) ==
    /\ pc[p] = "create_validate"
    /\ LET item == args[p].order_items_data[loc[p].i]
           product == db.Products[item.product_id]
       IN /\ ~Blocked(p, "Products", item.product_id)
          /\ \E ok \in BOOLEAN :
              IF ~ok THEN CreateRaise(p, "StoreError") /\ UNCHANGED loc
              ELSE IF ~product.exists
              THEN CreateRaise(p, "ValueError: does not exist") /\ UNCHANGED loc
              ELSE IF ~product.InStock
              THEN CreateRaise(p, "ValueError: out of stock") /\ UNCHANGED loc
              ELSE /\ loc' = Set(loc, p, [loc[p] EXCEPT
                                 !.total_amount = @ + product.Price * item.quantity,
                                 !.i = @ + 1])
                   /\ pc'  = Set(pc, p, ValidateTarget(args[p].order_items_data, loc[p].i + 1))
                   /\ UNCHANGED <<ret, hist>>
    /\ UNCHANGED <<db, logTable, identity, ws, args, calls>>

\* order = self.order_repo.add(Order(customer_id, total_amount, 'pending')):
\* INSERT INTO Orders on a connection of its own; conn.commit()
CreateAdd(p) ==
    /\ pc[p] = "create_add"
    /\ \E ok \in BOOLEAN :
          IF ok
          THEN /\ db' = Apply(db, Put(NoWrites, "Orders", identity.Orders,
                              OrderRow(args[p].customer_id, loc[p].total_amount, "pending")))
               /\ identity' = [identity EXCEPT !.Orders = @ + 1]
               /\ loc' = Set(loc, p, [loc[p] EXCEPT !.order_id = identity.Orders, !.i = 1])
               /\ hist' = Set(hist, p, Bump(hist[p], "commits"))
               /\ pc'  = Set(pc, p, InsertTarget(args[p].order_items_data, 1))
               /\ UNCHANGED ret
          ELSE /\ CreateRaise(p, "StoreError")
               /\ UNCHANGED <<db, identity, loc>>
    /\ UNCHANGED <<logTable, ws, args, calls>>

\* second loop, one iteration: unit_price = self.product_repo.get_by_id(...).price;
\* base_repo._execute_non_query(INSERT INTO OrderItems ...), which commits
CreateItem(p) ==
    /\ pc[p] = "create_item"
    /\ LET item == args[p].order_items_data[loc[p].i]
           product == db.Products[item.product_id]
       IN /\ ~Blocked(p, "Products", item.product_id)
          /\ \E ok \in BOOLEAN :
              IF ok /\ product.exists
              THEN /\ db' = Apply(db, Put(NoWrites, "OrderItems", identity.OrderItems,
                                  ItemRow(loc[p].order_id, item.product_id,
                                          item.quantity, product.Price)))
                   /\ identity' = [identity EXCEPT !.OrderItems = @ + 1]
                   /\ loc' = Set(loc, p, [loc[p] EXCEPT !.i = @ + 1])
                   /\ hist' = Set(hist, p, Bump(hist[p], "commits"))
                   /\ pc'  = Set(pc, p, InsertTarget(args[p].order_items_data, loc[p].i + 1))
                   /\ UNCHANGED ret
              ELSE /\ CreateRaise(p, "StoreError")
                   /\ UNCHANGED <<db, identity, loc>>
    /\ UNCHANGED <<logTable, ws, args, calls>>

\* order.total_amount = total_amount; order = self.order_repo.update(order);
\* return order
CreateUpdate(p) ==
    /\ pc[p] = "create_update"
    /\ ~Blocked(p, "Orders", loc[p].order_id)
    /\ \E ok \in BOOLEAN :
          IF ok
          THEN /\ db' = IF db.Orders[loc[p].order_id].exists
                        THEN Apply(db, Put(NoWrites, "Orders", loc[p].order_id,
                                 OrderRow(args[p].customer_id, loc[p].total_amount, "pending")))
                        ELSE db
               /\ hist' = Set(hist, p, Bump(hist[p], "commits"))
               /\ ret' = Set(ret, p, [NoRet EXCEPT !.kind = "order", !.value = loc[p].order_id])
               /\ pc'  = Set(pc, p, "done")
          ELSE /\ CreateRaise(p, "StoreError")
               /\ UNCHANGED db
    /\ UNCHANGED <<logTable, identity, ws, args, loc, calls>>

\* ConsoleUI.transaction_menu: the handler has returned, the menu loop goes
\* round; the finished invocation's arguments and result are dropped
MenuLoop(p) ==
    /\ pc[p] = "done"
    /\ pc'   = Set(pc, p, "idle")
    /\ args' = Set(args, p, NoArgs)
    /\ ret'  = Set(ret, p, NoRet)
    /\ hist' = Set(hist, p, NoHist)
    /\ loc'  = Set(loc, p, NoLoc)
    /\ UNCHANGED <<db, logTable, identity, ws, calls>>

\* ----------------------------------------------------------- specifications
InitDb(credit, stock, price) ==
    [Customers |-> [i \in CustIds |-> IF i \in Registered THEN CustomerRow(credit[i])
                                      ELSE NoCustomer],
     Products  |-> [i \in ProdIds |-> IF i \in Stocked THEN ProductRow(stock[i], price[i])
                                      ELSE NoProduct],
     Orders    |-> [i \in OrderIds |-> NoOrder],
     OrderItems |-> [i \in ItemIds |-> NoItem],
     TransactionLog |-> [i \in LogIds |-> NoLogRow]]

InitCallers ==
    /\ identity = [TransactionLog |-> 1, Orders |-> 1, OrderItems |-> 1]
    /\ ws   = [p \in Procs |-> NoWrites]
    /\ pc   = [p \in Procs |-> "idle"]
    /\ args = [p \in Procs |-> NoArgs]
    /\ loc  = [p \in Procs |-> NoLoc]
    /\ ret  = [p \in Procs |-> NoRet]
    /\ hist = [p \in Procs |-> NoHist]
    /\ calls = 0

\* a ledger of customers with any credit; the TransactionLog table may or
\* may not have been created yet
InitTransfer ==
    /\ \E credit \in [Registered -> 0..MaxCredit] :
           db = InitDb(credit, [i \in Stocked |-> TRUE], [i \in Stocked |-> MaxPrice])
    /\ logTable \in BOOLEAN
    /\ InitCallers
TransferStep(p) ==
    \/ \E from \in CustIds, to \in CustIds, amt \in Amounts :
          TransferCustomerCredit(p, from, to, amt)
    \/ \E from \in CustIds, to \in CustIds, amt \in Amounts :
          TransferCreditUI(p, from, to, amt)
    \/ EnsureConnect(p)
    \/ EnsureCreate(p)
    \/ EitConnect(p)
    \/ DebitSelect(p)
    \/ DebitUpdate(p)
    \/ CreditUpdate(p)
    \/ LogInsert(p)
    \/ EitCommit(p)
    \/ EitRollback(p)
    \/ EitClose(p)
    \/ TransferReturn(p)
    \/ MenuLoop(p)

\* one caller at a time: invocations do not overlap
NextTransfer == TransferStep(1)

SpecTransfer == InitTransfer /\ [][NextTransfer]_vars

\* a catalogue with any prices and stock flags, no order placed yet
InitOrders ==
    /\ \E stock \in [Stocked -> BOOLEAN], price \in [Stocked -> 1..MaxPrice] :
           db = InitDb([i \in Registered |-> MaxCredit], stock, price)
    /\ logTable = TRUE
    /\ InitCallers

PlaceStep(p) ==
    \/ \E cust \in CustIds, items \in ItemLists :
          PlaceOrderWithInventoryCheck(p, cust, items)
    \/ PlaceConnect(p)
    \/ PlaceCheck(p)
    \/ PlaceInsertOrder(p)
    \/ PlaceItem(p)
    \/ PlaceUpdateTotal(p)
    \/ PlaceCommit(p)
    \/ PlaceRollback(p)
    \/ PlaceClose(p)

CancelStep(p) ==
    \/ \E oid \in OrderIds : CancelOrderWithRefund(p, oid)
    \/ CancelConnect(p)
    \/ CancelGetOrderDetails(p)
    \/ CancelUpdateOrderStatus(p)
    \/ CancelRefundCustomerCredit(p)
    \/ CancelSelectItems(p)
    \/ CancelRestock(p)
    \/ CancelCommit(p)
    \/ CancelRollback(p)
    \/ CancelClose(p)

\* one caller at a time places and cancels orders
NextOrders == PlaceStep(1) \/ CancelStep(1) \/ MenuLoop(1)

SpecOrders == InitOrders /\ [][NextOrders]_vars

DetailsStep(p) ==
    \/ \E oid \in OrderIds : GetOrderWithDetails(p, oid)
    \/ DetailsOrder(p)
    \/ DetailsCustomer(p)
    \/ DetailsItems(p)

\* caller 1 places orders while caller 2 reads orders on connections of its own
NextReaders == PlaceStep(1) \/ MenuLoop(1) \/ DetailsStep(2) \/ MenuLoop(2)

\* a catalogue with any prices, every product in stock, no order placed yet
InitReaders ==
    /\ \E price \in [Stocked -> 1..MaxPrice] :
           db = InitDb([i \in Registered |-> MaxCredit], [i \in Stocked |-> TRUE], price)
    /\ logTable = TRUE
    /\ InitCallers

SpecReaders == InitReaders /\ [][NextReaders]_vars

\* the OrderItems rows of an order placed with the item list `items`
PlacedItems(oid, items, price) ==
    [i \in ItemIds |->
        IF i <= Len(items)
        THEN ItemRow(oid, items[i].product_id, items[i].quantity,
                     price[items[i].product_id])
        ELSE NoItem]

RECURSIVE PlacedTotal(_, _)
PlacedTotal(items, price) ==
    IF items = << >> THEN 0
    ELSE ItemTotal(price[Head(items).product_id], Head(items).quantity)
             + PlacedTotal(Tail(items), price)

\* a store that holds order 1 as place_order_with_inventory_check commits it:
\* status 'processing', items of products that have a row, the total of its
\* items; customers with any credit, products with any stock flag
InitCancel ==
    /\ \E credit \in [Registered -> 0..MaxCredit], stock \in [Stocked -> BOOLEAN],
          cust \in CustIds,
          items \in {l \in ItemLists : \A k \in 1..Len(l) : l[k].product_id \in Stocked} :
          LET price == [i \in Stocked |-> MaxPrice] IN
          /\ db = [InitDb(credit, stock, price) EXCEPT
                     !.Orders[1] = OrderRow(cust, PlacedTotal(items, price), "processing"),
                     !.OrderItems = PlacedItems(1, items, price)]
          /\ identity = [TransactionLog |-> 1, Orders |-> 2, OrderItems |-> Len(items) + 1]
    /\ logTable = TRUE
    /\ ws   = [p \in Procs |-> NoWrites]
    /\ pc   = [p \in Procs |-> "idle"]
    /\ args = [p \in Procs |-> NoArgs]
    /\ loc  = [p \in Procs |-> NoLoc]
    /\ ret  = [p \in Procs |-> NoRet]
    /\ hist = [p \in Procs |-> NoHist]
    /\ calls = 0

StatusStep(p) ==
    \/ \E oid \in OrderIds, new_status \in Statuses : UpdateOrderStatus(p, oid, new_status)
    \/ StatusGet(p)
    \/ StatusUpdate(p)

\* one caller at a time cancels orders and edits order statuses
NextCancel == CancelStep(1) \/ StatusStep(1) \/ MenuLoop(1)

SpecCancel == InitCancel /\ [][NextCancel]_vars

CreateStep(p) ==
    \/ \E cust \in CustIds, items \in ItemLists : CreateOrderWithItems(p, cust, items)
    \/ CreateGetCustomer(p)
    \/ CreateValidate(p)
    \/ CreateAdd(p)
    \/ CreateItem(p)
    \/ CreateUpdate(p)

\* one caller at a time creates orders through OrderService
NextService == CreateStep(1) \/ MenuLoop(1)

SpecService == InitOrders /\ [][NextService]_vars

\* every customer holds MaxCredit, the TransactionLog table exists
InitRace ==
    /\ db = InitDb([i \in Registered |-> MaxCredit], [i \in Stocked |-> TRUE],
                   [i \in Stocked |-> MaxPrice])
    /\ logTable = TRUE
    /\ InitCallers

TransferRaceStep(p) ==
    \/ \E from \in Registered, to \in Registered, amt \in 1..MaxAmount :
          TransferCustomerCredit(p, from, to, amt)
    \/ EnsureConnect(p)
    \/ EnsureCreate(p)
    \/ EitConnect(p)
    \/ DebitSelect(p)
    \/ DebitUpdate(p)
    \/ CreditUpdate(p)
    \/ LogInsert(p)
    \/ DeadlockVictim(p)
    \/ EitCommit(p)
    \/ EitRollback(p)
    \/ EitClose(p)
    \/ TransferReturn(p)
    \/ MenuLoop(p)

\* two callers transfer positive amounts between existing customers at the
\* same time, each on its own connection
NextRace == \E p \in Procs : TransferRaceStep(p)

SpecRace == InitRace /\ [][NextRace]_vars

\* a store that holds order 1 of customer 1, placed with positive quantities,
\* not cancelled; every customer holds MaxCredit
InitCancelRace ==
    /\ \E stock \in [Stocked -> BOOLEAN],
          items \in {l \in ItemLists : \A k \in 1..Len(l) :
                         l[k].product_id \in Stocked /\ l[k].quantity > 0} :
          LET price == [i \in Stocked |-> MaxPrice] IN
          /\ db = [InitDb([i \in Registered |-> MaxCredit], stock, price) EXCEPT
                     !.Orders[1] = OrderRow(1, PlacedTotal(items, price), "processing"),
                     !.OrderItems = PlacedItems(1, items, price)]
          /\ identity = [TransactionLog |-> 1, Orders |-> 2, OrderItems |-> Len(items) + 1]
    /\ logTable = TRUE
    /\ ws   = [p \in Procs |-> NoWrites]
    /\ pc   = [p \in Procs |-> "idle"]
    /\ args = [p \in Procs |-> NoArgs]
    /\ loc  = [p \in Procs |-> NoLoc]
    /\ ret  = [p \in Procs |-> NoRet]
    /\ hist = [p \in Procs |-> NoHist]
    /\ calls = 0

\* two callers cancel orders at the same time, each on its own connection
NextCancelRace == \E p \in Procs : CancelStep(p) \/ MenuLoop(p)

SpecCancelRace == InitCancelRace /\ [][NextCancelRace]_vars

\* every customer holds MaxCredit, every product is in stock, no order yet
InitLive == InitRace

\* a handler of the transaction menu is invoked (a transfer moves a whole
\* credit of MaxCredit: it succeeds the first time and finds the balance
\* insufficient afterwards)
WorkflowStart(p) ==
    \/ \E from \in CustIds, to \in CustIds, amt \in {MaxCredit} :
          TransferCustomerCredit(p, from, to, amt)
    \/ \E cust \in CustIds, items \in ItemLists :
          PlaceOrderWithInventoryCheck(p, cust, items)
    \/ \E oid \in OrderIds : CancelOrderWithRefund(p, oid)

\* the next statement of the running workflow
WorkflowStep(p) ==
    \/ EnsureConnect(p) \/ EnsureCreate(p) \/ EitConnect(p)
    \/ DebitSelect(p) \/ DebitUpdate(p) \/ CreditUpdate(p) \/ LogInsert(p)
    \/ EitCommit(p) \/ EitRollback(p) \/ EitClose(p) \/ TransferReturn(p)
    \/ PlaceConnect(p) \/ PlaceCheck(p) \/ PlaceInsertOrder(p) \/ PlaceItem(p)
    \/ PlaceUpdateTotal(p) \/ PlaceCommit(p) \/ PlaceRollback(p) \/ PlaceClose(p)
    \/ CancelConnect(p) \/ CancelGetOrderDetails(p) \/ CancelUpdateOrderStatus(p)
    \/ CancelRefundCustomerCredit(p) \/ CancelSelectItems(p) \/ CancelRestock(p)
    \/ CancelCommit(p) \/ CancelRollback(p) \/ CancelClose(p)

NextLive == WorkflowStart(1) \/ WorkflowStep(1) \/ MenuLoop(1)

\* a running workflow is never abandoned: every call on the store returns or
\* raises, and the calling thread goes on to its next statement
SpecLive == InitLive /\ [][NextLive]_vars /\ WF_vars(WorkflowStep(1))

\* ------------------------------------------------------------------ claims
Returned(p)   == pc[p] = "done"
IsTransfer(p) == args[p].op = "transfer"
Credit(d, c)  == d.Customers[c].CreditLimit
HasCustomer(d, c) == d.Customers[c].exists
LogRows(d)    == {i \in LogIds : d.TransactionLog[i].exists}
NewLogRows(p) == LogRows(db) \ LogRows(hist[p].pre)

RECURSIVE SumCredit(_, _)
SumCredit(d, S) ==
    IF S = {} THEN 0
    ELSE LET c == CHOOSE x \in S : TRUE IN Credit(d, c) + SumCredit(d, S \ {c})

\* C1: once a step of execute_in_transaction has raised, the committed store
\* equals the store at the start of the call, nothing was committed, and no
\* step after the failing one has been entered.
C1_StepFailureRollsBack ==
    \A p \in Procs :
        (IsTransfer(p) /\ hist[p].raisedAt > 0) =>
            /\ db = hist[p].pre
            /\ hist[p].commits = 0
            /\ hist[p].executed = SubSeq(TransferOperations, 1, hist[p].raisedAt)

\* the third step failed after the debit and the credit had been applied
C1_Witness ==
    \E p \in Procs :
        /\ Returned(p) /\ IsTransfer(p)
        /\ hist[p].raisedAt = 3 /\ hist[p].rollbacks = 1
        /\ args[p].amount > 0
        /\ args[p].from_customer_id # args[p].to_customer_id

\* C2 (as stated): every successful transfer leaves balance(X) = before - a
\* and balance(X) + balance(Y) unchanged, for any ids X, Y.
C2_Original ==
    \A p \in Procs :
        (Returned(p) /\ IsTransfer(p) /\ ret[p].kind = "True") =>
            LET X == args[p].from_customer_id
                Y == args[p].to_customer_id
                a == args[p].amount
            IN /\ Credit(db, X) = Credit(hist[p].pre, X) - a
               /\ Credit(db, X) + Credit(db, Y) =
                      Credit(hist[p].pre, X) + Credit(hist[p].pre, Y)

\* C2 (amended): a successful transfer between two different customers moves
\* exactly a from X to Y; a successful transfer from X to X leaves the balance
\* unchanged; and the committed total never changes, so no committed state
\* holds a debit without its credit.
C2_TransferConserves ==
    \A p \in Procs :
        IsTransfer(p) =>
            /\ SumCredit(db, Registered) = SumCredit(hist[p].pre, Registered)
            /\ (Returned(p) /\ ret[p].kind = "True") =>
                LET X == args[p].from_customer_id
                    Y == args[p].to_customer_id
                    a == args[p].amount
                IN /\ HasCustomer(db, X) /\ HasCustomer(db, Y)
                   /\ X # Y => /\ Credit(db, X) = Credit(hist[p].pre, X) - a
                               /\ Credit(db, Y) = Credit(hist[p].pre, Y) + a
                   /\ X = Y => Credit(db, X) = Credit(hist[p].pre, X)
                   /\ \A c \in Registered \ {X, Y} :
                          Credit(db, c) = Credit(hist[p].pre, c)

\* a transfer of a positive amount between two customers has committed
C2_Witness ==
    \E p \in Procs :
        /\ Returned(p) /\ IsTransfer(p) /\ ret[p].kind = "True"
        /\ args[p].amount > 0
        /\ args[p].from_customer_id # args[p].to_customer_id
        /\ hist[p].commits = 1

\* C3: a transfer whose source has no row or too little credit returns False
\* and leaves every balance and the TransactionLog as they were.
C3_Original ==
    \A p \in Procs :
        (Returned(p) /\ IsTransfer(p) /\
         (\/ ~HasCustomer(hist[p].pre, args[p].from_customer_id)
          \/ Credit(hist[p].pre, args[p].from_customer_id) < args[p].amount)) =>
            /\ ret[p].kind = "False"
            /\ db = hist[p].pre

\* C4: no customer's CreditLimit is negative in any committed state.
C4_Original ==
    \A c \in Registered : Credit(db, c) >= 0

\* C5: a transfer with amount <= 0 is refused before any connection is opened
\* and changes nothing.
C5_Original ==
    \A p \in Procs :
        (args[p].op \in {"transfer", "ui_transfer"} /\ args[p].amount <= 0) =>
            /\ hist[p].opened = 0
            /\ db = hist[p].pre
            /\ Returned(p) => ret[p].kind = "rejected"

\* C6: when the credit step or the log step of a transfer fails, the source
\* balance, the destination balance and the TransactionLog equal their values
\* before the call.
C6_LaterStepFailureRestoresDebit ==
    \A p \in Procs :
        (IsTransfer(p) /\ hist[p].raisedAt >= 2 /\ pc[p] \in {"eit_return", "done"}) =>
            /\ db.Customers[args[p].from_customer_id] =
                   hist[p].pre.Customers[args[p].from_customer_id]
            /\ db.Customers[args[p].to_customer_id] =
                   hist[p].pre.Customers[args[p].to_customer_id]
            /\ db.TransactionLog = hist[p].pre.TransactionLog

\* the credit step failed after a debit of a positive amount
C6_Witness ==
    \E p \in Procs :
        /\ Returned(p) /\ IsTransfer(p)
        /\ hist[p].raisedAt = 2
        /\ args[p].amount > 0
        /\ HasCustomer(db, args[p].from_customer_id)

\* C7: a transfer to a destination id without a Customers row returns False
\* and leaves the source balance unchanged.
C7_Original ==
    \A p \in Procs :
        (Returned(p) /\ IsTransfer(p) /\
         ~HasCustomer(hist[p].pre, args[p].to_customer_id)) =>
            /\ ret[p].kind = "False"
            /\ Credit(db, args[p].from_customer_id) =
                   Credit(hist[p].pre, args[p].from_customer_id)

\* C8: transfer_customer_credit and cancel_order_with_refund never let an
\* error reach the caller.
C8_Original ==
    \A p \in Procs :
        args[p].op \in {"transfer", "cancel"} => ret[p].kind # "raise"

\* C9: a successful transfer adds exactly one TransactionLog row, holding
\* (X, Y, a); a failed one adds none; and a row, once committed, is never
\* changed or removed.
C9_LogState ==
    \A p \in Procs :
        (Returned(p) /\ IsTransfer(p)) =>
            IF ret[p].kind = "True"
            THEN /\ Cardinality(NewLogRows(p)) = 1
                 /\ \A i \in NewLogRows(p) :
                        db.TransactionLog[i] =
                            LogRow(args[p].from_customer_id, args[p].to_customer_id,
                                   args[p].amount)
            ELSE NewLogRows(p) = {}

C9_LogStep ==
    \A i \in LogRows(db) : db'.TransactionLog[i] = db.TransactionLog[i]

C9_LogAppendOnly == [](C9_LogState) /\ [][C9_LogStep]_vars

\* a second transfer has committed its row next to the first one
C9_Witness ==
    \E p \in Procs :
        /\ Returned(p) /\ IsTransfer(p) /\ ret[p].kind = "True"
        /\ Cardinality(LogRows(db)) = 2
        /\ args[p].from_customer_id # args[p].to_customer_id

OrderItemsOf(d, oid) ==
    {i \in ItemIds : d.OrderItems[i].exists /\ d.OrderItems[i].OrderID = oid}

RECURSIVE SumItems(_, _)
SumItems(d, S) ==
    IF S = {} THEN 0
    ELSE LET i == CHOOSE x \in S : TRUE
         IN d.OrderItems[i].Quantity * d.OrderItems[i].UnitPrice + SumItems(d, S \ {i})

\* C10: after a successful place_order_with_inventory_check the committed
\* order's TotalAmount equals the sum of Quantity * UnitPrice over the
\* OrderItems rows inserted for it, one row per requested item.
C10_OrderTotalIsSumOfItems ==
    \A p \in Procs :
        (Returned(p) /\ args[p].op = "place" /\ ret[p].kind = "order_id") =>
            LET oid == ret[p].value IN
            /\ db.Orders[oid].exists
            /\ ~hist[p].pre.Orders[oid].exists
            /\ Cardinality(OrderItemsOf(db, oid)) = Len(args[p].order_items_data)
            /\ OrderItemsOf(hist[p].pre, oid) = {}
            /\ db.Orders[oid].TotalAmount = SumItems(db, OrderItemsOf(db, oid))

\* an order of two different products with different prices has committed
C10_Witness ==
    \E p \in Procs :
        /\ Returned(p) /\ args[p].op = "place" /\ ret[p].kind = "order_id"
        /\ Len(args[p].order_items_data) = 2
        /\ args[p].order_items_data[1].product_id # args[p].order_items_data[2].product_id
        /\ \A k \in 1..2 : args[p].order_items_data[k].quantity > 0
        /\ db.Products[1].Price # db.Products[2].Price
        /\ db.Orders[ret[p].value].TotalAmount = db.Products[1].Price + db.Products[2].Price

IsPlace(p) == args[p].op = "place"

\* the positions of order_items_data whose product has no row or is not in
\* stock in the store d
Unavailable(d, items) ==
    {k \in 1..Len(items) :
        \/ ~d.Products[items[k].product_id].exists
        \/ ~d.Products[items[k].product_id].InStock}

ValueErrors ==
    {"ValueError: does not exist", "ValueError: out of stock"}

\* C11: place_order_with_inventory_check has checked every requested product
\* (row exists, InStock) before it writes any Orders or OrderItems row; the
\* check stops with an error at the first product that fails it, and an
\* attempt with such a product ends in an error and leaves Orders and
\* OrderItems as they were.
C11_ChecksPrecedeWrites ==
    \A p \in Procs :
        IsPlace(p) =>
            LET items == args[p].order_items_data
                bad   == Unavailable(hist[p].pre, items)
            IN /\ (ws[p] # NoWrites \/ hist[p].commits > 0) => bad = {}
               /\ bad # {} =>
                    /\ ws[p] = NoWrites
                    /\ db.Orders = hist[p].pre.Orders
                    /\ db.OrderItems = hist[p].pre.OrderItems
                    /\ Returned(p) => ret[p].kind = "raise"
               /\ (pc[p] = "place_rollback" /\ loc[p].exc \in ValueErrors) =>
                    /\ hist[p].failed = "place_check"
                    /\ loc[p].i \in bad
                    /\ \A k \in bad : loc[p].i <= k

\* the first product passed the check, the second one is out of stock
C11_Witness ==
    \E p \in Procs :
        /\ Returned(p) /\ IsPlace(p)
        /\ ret[p].kind = "raise" /\ ret[p].exc = "ValueError: out of stock"
        /\ Unavailable(hist[p].pre, args[p].order_items_data) = {2}
        /\ hist[p].rollbacks = 1

\* C12: a place_order_with_inventory_check attempt that fails after its
\* Orders row was inserted (at an item, at the total update or at commit)
\* leaves no Orders row and no OrderItems row behind: the committed tables
\* equal those before the call, the identity the attempt used has no row,
\* and the caller gets the error.
C12_FailedItemLeavesNoOrder ==
    \A p \in Procs :
        (IsPlace(p) /\
         hist[p].failed \in {"place_item", "place_update_total", "place_commit"}) =>
            /\ db.Orders = hist[p].pre.Orders
            /\ db.OrderItems = hist[p].pre.OrderItems
            /\ ~db.Orders[identity.Orders - 1].exists
            /\ OrderItemsOf(db, identity.Orders - 1) = {}
            /\ Returned(p) => (ws[p] = NoWrites /\ ret[p].kind = "raise")

\* the second item failed after the Orders row and the first OrderItems row
\* had been inserted by the first call
C12_Witness ==
    \E p \in Procs :
        /\ Returned(p) /\ IsPlace(p)
        /\ hist[p].failed = "place_item"
        /\ calls = 1
        /\ identity.Orders = 2 /\ identity.OrderItems = 2
        /\ Len(args[p].order_items_data) = 2

IsDetails(p) == args[p].op = "details"

\* C13: a reader on another connection never sees an order that place_order_
\* with_inventory_check has not finished: an Orders row is committed together
\* with all its OrderItems and its final total (never the placeholder), an id
\* without a committed Orders row has no committed OrderItems, a committed
\* order and its items do not change afterwards, and what get_order_with_
\* details returns is such a complete order or nothing.
C13_State ==
    /\ \A o \in OrderIds :
          IF db.Orders[o].exists
          THEN db.Orders[o].TotalAmount = SumItems(db, OrderItemsOf(db, o))
          ELSE OrderItemsOf(db, o) = {}
    /\ \A p \in Procs :
          (IsPlace(p) /\ hist[p].commits > 0 /\ pc[p] = "place_close") =>
              /\ db.Orders[loc[p].order_id].exists
              /\ Cardinality(OrderItemsOf(db, loc[p].order_id)) =
                     Len(args[p].order_items_data)
    /\ \A r \in Procs :
          (IsDetails(r) /\ loc[r].order.exists) =>
              /\ loc[r].order = db.Orders[args[r].order_id]
              /\ (Returned(r) /\ ret[r].kind = "details") =>
                    /\ {loc[r].order_items[k].order_item_id :
                            k \in 1..Len(loc[r].order_items)} =
                           OrderItemsOf(db, args[r].order_id)
                    /\ \A k \in 1..Len(loc[r].order_items) :
                           LET it == loc[r].order_items[k] IN
                           DetailsItem(it.order_item_id, db.OrderItems[it.order_item_id]) = it
    /\ \A r \in Procs :
          (IsDetails(r) /\ Returned(r) /\ ret[r].kind = "None") =>
              loc[r] = NoDetails

C13_Step ==
    \A o \in OrderIds :
        db.Orders[o].exists =>
            /\ db'.Orders[o] = db.Orders[o]
            /\ OrderItemsOf(db', o) = OrderItemsOf(db, o)
            /\ \A i \in OrderItemsOf(db, o) : db'.OrderItems[i] = db.OrderItems[i]

C13_OrderVisibleAtomically == [](C13_State) /\ [][C13_Step]_vars

\* the reader got an order with both its items and a total that is not the
\* placeholder, before the placing call had returned
C13_Witness ==
    \E r \in Procs, p \in Procs :
        /\ Returned(r) /\ IsDetails(r) /\ ret[r].kind = "details"
        /\ Len(loc[r].order_items) = 2
        /\ loc[r].order.TotalAmount > 0
        /\ IsPlace(p) /\ pc[p] = "place_close"

IsCancel(p) == args[p].op = "cancel"

\* C14 (as stated): cancel_order_with_refund on an order that is already
\* 'cancelled', or on an id without an Orders row, returns False and leaves
\* the whole store (balances, statuses, stock flags) as it was.
C14_Original ==
    \A p \in Procs :
        (Returned(p) /\ IsCancel(p) /\
         (\/ ~hist[p].pre.Orders[args[p].order_id].exists
          \/ hist[p].pre.Orders[args[p].order_id].OrderStatus = "cancelled")) =>
            /\ ret[p].kind = "False"
            /\ db = hist[p].pre

\* C15: after a successful cancel_order_with_refund(o) the order's status is
\* 'cancelled' and the balance of its customer is the balance before the call
\* plus the order's TotalAmount (for a customer that has a row); no other
\* balance and no other column of the order has changed.
C15_RefundAddsTotal ==
    \A p \in Procs :
        (Returned(p) /\ IsCancel(p) /\ ret[p].kind = "True") =>
            LET o    == args[p].order_id
                was  == hist[p].pre.Orders[o]
                cust == was.CustomerID
            IN /\ was.exists /\ was.OrderStatus # "cancelled"
               /\ db.Orders[o] = [was EXCEPT !.OrderStatus = "cancelled"]
               /\ \A c \in Registered :
                     Credit(db, c) = Credit(hist[p].pre, c) +
                                     (IF c = cust THEN was.TotalAmount ELSE 0)
               /\ \A c \in CustIds \ Registered : db.Customers[c] = NoCustomer

\* an order with a total other than 0 was cancelled and its customer refunded
C15_Witness ==
    \E p \in Procs :
        /\ Returned(p) /\ IsCancel(p) /\ ret[p].kind = "True"
        /\ hist[p].pre.Orders[args[p].order_id].TotalAmount > 0
        /\ hist[p].pre.Orders[args[p].order_id].CustomerID \in Registered
        /\ hist[p].commits = 1

\* C16: the status change, the refund and the stock flags of cancel_order_
\* with_refund are committed together or not at all: until the call's commit
\* the committed store equals the store before the call, and when a step
\* after the status update fails (refund, item query, restock, commit) it
\* still does when the call has returned, with nothing left uncommitted.
C16_CancelAllOrNothing ==
    \A p \in Procs :
        IsCancel(p) =>
            /\ hist[p].commits = 0 => db = hist[p].pre
            /\ hist[p].failed \in {"cancel_refund_customer_credit", "cancel_select_items",
                                   "cancel_restock", "cancel_commit"} =>
                  /\ hist[p].commits = 0
                  /\ Returned(p) => (ws[p] = NoWrites /\ ret[p].kind # "True")
            /\ hist[p].commits > 0 =>
                  /\ db.Orders[args[p].order_id].OrderStatus = "cancelled"
                  /\ \A i \in OrderItemsOf(db, args[p].order_id) :
                        LET pr == db.OrderItems[i].ProductID IN
                        db.Products[pr].exists => db.Products[pr].InStock

\* the restock step failed after the status and the balance had been updated
C16_Witness ==
    \E p \in Procs :
        /\ Returned(p) /\ IsCancel(p)
        /\ hist[p].failed = "cancel_restock"
        /\ hist[p].rollbacks = 1
        /\ hist[p].pre.Orders[args[p].order_id].TotalAmount # 0
        /\ hist[p].pre.Orders[args[p].order_id].CustomerID \in Registered

\* C17 (as stated): an order's status becomes 'cancelled' only in the commit
\* of a cancel_order_with_refund of that order, and that commit adds the
\* order's TotalAmount to its customer's balance; the status of a cancelled
\* order and that refund stay as they are.
C17_Step ==
    \A o \in OrderIds :
        LET row == db.Orders[o] IN
        /\ (row.exists /\ row.OrderStatus # "cancelled" /\
            db'.Orders[o].OrderStatus = "cancelled") =>
              /\ \E p \in Procs :
                    IsCancel(p) /\ args[p].order_id = o /\ pc[p] = "cancel_commit"
              /\ row.CustomerID \in Registered =>
                    Credit(db', row.CustomerID) = Credit(db, row.CustomerID) + row.TotalAmount
        /\ (row.exists /\ row.OrderStatus = "cancelled") =>
              /\ db'.Orders[o].OrderStatus = "cancelled"
              /\ row.CustomerID \in Registered =>
                    Credit(db', row.CustomerID) = Credit(db, row.CustomerID)

C17_Original == [][C17_Step]_vars

\* C18 (as stated): when an order is placed with place_order_with_inventory_
\* check and then cancelled with cancel_order_with_refund, nothing in between,
\* its customer's balance after the cancellation equals the balance before
\* the placement (InitOrders gives every customer the balance MaxCredit, and
\* the two calls are the only ones of the behaviour).
C18_Original ==
    \A p \in Procs :
        (Returned(p) /\ IsCancel(p) /\ ret[p].kind = "True" /\ calls = 2 /\
         db.Orders[args[p].order_id].CustomerID \in Registered) =>
            Credit(db, db.Orders[args[p].order_id].CustomerID) = MaxCredit

StepPcs == {"debit_select", "debit_update", "credit_update", "log_insert"}

\* C19: in execute_in_transaction the steps run in list order on the one
\* connection the call has opened, a result is appended for every step that
\* returned, nothing is committed before the last step has returned, and when
\* no step (and no commit) raised the transaction has been committed exactly
\* once and the results list holds one result per step, in step order.
C19_AllStepsThenOneCommit ==
    \A p \in Procs :
        IsTransfer(p) =>
            /\ hist[p].executed = SubSeq(TransferOperations, 1, Len(hist[p].executed))
            /\ pc[p] \in StepPcs =>
                  /\ hist[p].commits = 0
                  /\ hist[p].opened - hist[p].closed = 1
                  /\ Len(loc[p].results) = loc[p].idx - 1
                  /\ Len(hist[p].executed) \in {loc[p].idx - 1, loc[p].idx}
            /\ pc[p] = "eit_commit" =>
                  /\ hist[p].commits = 0 /\ hist[p].raisedAt = 0
                  /\ hist[p].executed = loc[p].operations
            /\ hist[p].commits > 0 =>
                  /\ hist[p].commits = 1 /\ hist[p].raisedAt = 0
                  /\ hist[p].executed = TransferOperations
            /\ (pc[p] \in {"eit_close", "eit_return"} /\ loc[p].exc = "none") =>
                  /\ hist[p].commits = 1
                  /\ loc[p].results = [k \in 1..Len(loc[p].operations) |-> "None"]

\* the three steps of a transfer of a positive amount have run and the
\* coordinator is about to return their results
C19_Witness ==
    \E p \in Procs :
        /\ IsTransfer(p) /\ pc[p] = "eit_return" /\ loc[p].exc = "none"
        /\ Len(loc[p].results) = 3
        /\ hist[p].commits = 1
        /\ args[p].amount > 0
        /\ args[p].from_customer_id # args[p].to_customer_id

\* C20 (as stated): when a step of execute_in_transaction raises, the error
\* the caller receives is the error that step raised, on every path,
\* the rollback included.
C20_Original ==
    \A p \in Procs :
        (Returned(p) /\ IsTransfer(p) /\ hist[p].raisedAt > 0) =>
            ret[p].exc = hist[p].cause

\* C21: an invocation of execute_in_transaction whose connect succeeded holds
\* exactly one connection from then on and has closed exactly that one when
\* it returns or raises, whether the steps succeeded, a step failed, commit
\* failed or rollback failed; when connect itself raises, none was opened and
\* none is closed. (hist counts the connection of
\* _ensure_transaction_log_table, opened and closed before, as the first.)
C21_OneConnectionOpenedAndClosed ==
    \A p \in Procs :
        IsTransfer(p) =>
            /\ pc[p] = "eit_connect" => (hist[p].opened = 1 /\ hist[p].closed = 1)
            /\ pc[p] \in StepPcs \cup {"eit_commit", "eit_rollback", "eit_close"} =>
                  (hist[p].opened = 2 /\ hist[p].closed = 1)
            /\ pc[p] = "eit_return" =>
                  IF loc[p].exc = "ConnectError"
                  THEN hist[p].opened = 1 /\ hist[p].closed = 1
                  ELSE hist[p].opened = 2 /\ hist[p].closed = 2
            /\ (Returned(p) /\ ret[p].kind \in {"True", "False"}) =>
                  IF ret[p].exc = "ConnectError"
                  THEN hist[p].opened = 1 /\ hist[p].closed = 1
                  ELSE hist[p].opened = 2 /\ hist[p].closed = 2

\* a step failed, rollback() raised as well, and the connection was closed
C21_Witness ==
    \E p \in Procs :
        /\ Returned(p) /\ IsTransfer(p)
        /\ hist[p].raisedAt = 2 /\ hist[p].rollbacks = 0
        /\ ret[p].exc = "RollbackError"
        /\ hist[p].opened = 2 /\ hist[p].closed = 2

\* C22 (as stated): a workflow invocation (transfer, place, cancel) opens
\* exactly one connection, no other connection is opened during it, and the
\* connection is closed when the invocation has returned or raised.
C22_Original ==
    \A p \in Procs :
        args[p].op \in {"transfer", "place", "cancel"} =>
            /\ hist[p].opened <= 1
            /\ Returned(p) => hist[p].closed = hist[p].opened

\* C24 (as stated): every committed OrderItems row has Quantity > 0.
C24_Original ==
    \A i \in ItemIds : db.OrderItems[i].exists => db.OrderItems[i].Quantity > 0

\* C25 (as stated): every committed Orders row has at least one OrderItems
\* row.
C25_Original ==
    \A o \in OrderIds : db.Orders[o].exists => OrderItemsOf(db, o) # {}

\* the products that the OrderItems rows of order oid reference in store d
ProductsOf(d, oid) == {d.OrderItems[i].ProductID : i \in OrderItemsOf(d, oid)}

\* C26: after a successful cancel_order_with_refund(o) every product that an
\* OrderItems row of o references is in stock (nothing but the flag of its
\* row has changed), and the row of every other product is as before the
\* call.
C26_RestockTouchesOnlyItemsProducts ==
    \A p \in Procs :
        (Returned(p) /\ IsCancel(p) /\ ret[p].kind = "True") =>
            \A pr \in ProdIds :
                IF pr \in ProductsOf(hist[p].pre, args[p].order_id)
                THEN db.Products[pr] =
                         [hist[p].pre.Products[pr] EXCEPT
                              !.InStock = hist[p].pre.Products[pr].exists]
                ELSE db.Products[pr] = hist[p].pre.Products[pr]

\* the order's only product was out of stock and is in stock now, the other
\* product was out of stock and still is
C26_Witness ==
    \E p \in Procs :
        /\ Returned(p) /\ IsCancel(p) /\ ret[p].kind = "True"
        /\ ProductsOf(hist[p].pre, args[p].order_id) = {1}
        /\ ~hist[p].pre.Products[1].InStock /\ db.Products[1].InStock
        /\ ~hist[p].pre.Products[2].InStock /\ ~db.Products[2].InStock

\* C28 (as stated): in every committed state reached while or after
\* OrderService.create_order_with_items runs, every Orders row has a
\* TotalAmount equal to the sum of Quantity * UnitPrice over its committed
\* OrderItems rows.
C28_Original ==
    \A o \in OrderIds :
        db.Orders[o].exists =>
            db.Orders[o].TotalAmount = SumItems(db, OrderItemsOf(db, o))

\* what the transfer of caller p adds to the balance of customer c
Moved(p, c) ==
    (IF args[p].to_customer_id = c THEN args[p].amount ELSE 0)
    - (IF args[p].from_customer_id = c THEN args[p].amount ELSE 0)

\* C23: the balance check of debit_source_customer does not keep a second
\* transfer from debiting the same balance: when two transfers that ran at
\* the same time have both returned True, every balance is the initial one
\* plus what both moved, whatever each of them saw when it checked; with
\* a1, a2 <= b < a1 + a2 the source ends below 0.
C23_BothDebitsApply ==
    \A p \in Procs : \A q \in Procs \ {p} :
        (Returned(p) /\ IsTransfer(p) /\ ret[p].kind = "True" /\
         Returned(q) /\ IsTransfer(q) /\ ret[q].kind = "True") =>
            \A c \in Registered : Credit(db, c) = MaxCredit + Moved(p, c) + Moved(q, c)

\* both transfers out of customer 1 passed the check against the same balance
\* and committed: the balance is b - a1 - a2 < 0
C23_Witness ==
    \E p \in Procs : \E q \in Procs \ {p} :
        /\ Returned(p) /\ IsTransfer(p) /\ ret[p].kind = "True"
        /\ Returned(q) /\ IsTransfer(q) /\ ret[q].kind = "True"
        /\ args[p].from_customer_id = 1 /\ args[q].from_customer_id = 1
        /\ args[p].to_customer_id = 2 /\ args[q].to_customer_id = 2
        /\ args[p].amount <= MaxCredit /\ args[q].amount <= MaxCredit
        /\ args[p].amount + args[q].amount > MaxCredit
        /\ hist[p].pre = hist[q].pre
        /\ Credit(db, 1) = MaxCredit - args[p].amount - args[q].amount
        /\ Credit(db, 1) < 0

\* C30: with transfers between existing customers running at the same time,
\* the sum of all balances is the same in every committed state: no committed
\* debit or credit is lost.
C30_ConcurrentTransfersConserve ==
    SumCredit(db, Registered) = Cardinality(Registered) * MaxCredit

\* two transfers in opposite directions overlapped and both committed
C30_Witness ==
    \E p \in Procs : \E q \in Procs \ {p} :
        /\ Returned(p) /\ IsTransfer(p) /\ ret[p].kind = "True"
        /\ Returned(q) /\ IsTransfer(q) /\ ret[q].kind = "True"
        /\ args[p].from_customer_id = 1 /\ args[p].to_customer_id = 2
        /\ args[q].from_customer_id = 2 /\ args[q].to_customer_id = 1
        /\ args[p].amount # args[q].amount
        /\ hist[p].pre = hist[q].pre
        /\ Cardinality(LogRows(db)) = 2

\* C29 (as stated): however concurrent cancel_order_with_refund invocations
\* on the same order interleave, the order's TotalAmount is added to its
\* customer's committed balance at most once: once the order is committed as
\* 'cancelled', no later commit changes that balance.
C29_Step ==
    \A o \in OrderIds :
        (db.Orders[o].exists /\ db.Orders[o].OrderStatus = "cancelled" /\
         db.Orders[o].CustomerID \in Registered) =>
            Credit(db', db.Orders[o].CustomerID) = Credit(db, db.Orders[o].CustomerID)

C29_Original == [][C29_Step]_vars

IsWorkflow(p) == args[p].op \in {"transfer", "place", "cancel"}

\* the invocation has opened the connection its transaction runs on
TxnOpened(p) ==
    IsWorkflow(p) /\ hist[p].opened = (IF IsTransfer(p) THEN 2 ELSE 1)

\* C27: a workflow invocation that has opened its connection ends, and ends
\* in exactly one of two ways: its transaction committed (one commit, no
\* rollback, the call reports success) or rolled back (no commit, the call
\* reports failure, the committed store is as before the call and nothing
\* uncommitted is left: through rollback(), or through close() when
\* rollback() itself raised); commit and rollback precede the close, and the
\* connection is closed when the call has ended.
C27_State ==
    \A p \in Procs :
        TxnOpened(p) =>
            /\ hist[p].commits + hist[p].rollbacks <= 1
            /\ hist[p].closed < hist[p].opened => ~Returned(p)
            /\ pc[p] \in {"eit_commit", "place_commit", "cancel_commit",
                          "eit_rollback", "place_rollback", "cancel_rollback"} =>
                  (hist[p].commits + hist[p].rollbacks = 0 /\
                   hist[p].closed = hist[p].opened - 1)
            /\ Returned(p) =>
                  /\ hist[p].closed = hist[p].opened
                  /\ ws[p] = NoWrites
                  /\ IF hist[p].commits = 1
                     THEN ret[p].kind \in {"True", "order_id"}
                     ELSE /\ ret[p].kind \in {"False", "raise"}
                          /\ db = hist[p].pre
                          /\ hist[p].rollbacks = 1 \/ ret[p].exc = "RollbackError"

C27_EveryInvocationEnds ==
    /\ [](C27_State)
    /\ \A p \in Procs : TxnOpened(p) ~> Returned(p)

\* a place_order_with_inventory_check whose commit failed ended rolled back
C27_Witness ==
    \E p \in Procs :
        /\ Returned(p) /\ IsPlace(p) /\ TxnOpened(p)
        /\ hist[p].failed = "place_commit"
        /\ hist[p].rollbacks = 1 /\ hist[p].commits = 0
        /\ Len(args[p].order_items_data) = 2

====
